---- MODULE Spec2Model ----
(***************************************************************************)
(* A model of ugly_midi: MidiLoader (midi_file.py), Instrument and the     *)
(* piano-roll codec (instrument.py) and the value objects (containers.py). *)
(* Ticks, pitches, velocities and programs are integers; a track is a      *)
(* sequence of event records; Python's 0-based track index i is the        *)
(* (i+1)-th element of the sequence `tracks`.                              *)
(***************************************************************************)
EXTENDS Integers, Sequences, FiniteSets, TLC

VARIABLES
    pc,                 \* position of the modelled call
    tracks,             \* midi_data.tracks / mid.tracks: sequence of tracks
    all_events,         \* _load_instruments: the merged [track_idx, event] list
    idx,                \* _load_instruments: position of the resolve loop
    current_instrument, \* _load_instruments: per channel program register
    last_note_on,       \* _load_instruments: open-note table
    instrument_map,     \* _load_instruments: OrderedDict of Instruments
    track_name_map,     \* _load_instruments: track index -> name
    instruments,        \* self.instruments
    resolution,         \* self.resolution
    key_signatures,     \* self.key_signatures
    time_signatures,    \* self.time_signatures
    tempo_changes,      \* self.tempo_changes
    warnings,           \* the RuntimeWarnings raised so far
    loaded,             \* instruments of the MidiLoader that read the written file
    piano_roll,         \* the matrix get_piano_roll returned
    before,             \* the notes as they were when the call began
    arg                 \* the arguments of the modelled call

vars == <<pc, tracks, all_events, idx, current_instrument, last_note_on,
          instrument_map, track_name_map, instruments, resolution,
          key_signatures, time_signatures, tempo_changes, warnings, loaded,
          piano_roll, before, arg>>

resolverVars == <<all_events, idx, current_instrument, last_note_on,
                  instrument_map, track_name_map>>

metaVars == <<key_signatures, time_signatures, tempo_changes>>

\* what no step of the loader touches
loaderFrame == <<metaVars, warnings, loaded, piano_roll, before, arg>>

(***************************************************************************)
(* Bounds and input alphabets.                                             *)
(***************************************************************************)
MaxEvents == 3
Channels == {0, 9}
AllChannels == 0 .. 15
Pitches == {60}
Velocities == {0, 80}
Programs == {40}
Deltas == {0, 1}
SecondTrackLengths == {0, 1}

(***************************************************************************)
(* Events (mido messages) and containers.                                  *)
(***************************************************************************)
ProgramChange(ch, prog, t) ==
    [type |-> "program_change", channel |-> ch, note |-> 0, velocity |-> 0,
     program |-> prog, time |-> t]

NoteOnMsg(ch, n, vel, t) ==
    [type |-> "note_on", channel |-> ch, note |-> n, velocity |-> vel,
     program |-> 0, time |-> t]

NoteOffMsg(ch, n, vel, t) ==
    [type |-> "note_off", channel |-> ch, note |-> n, velocity |-> vel,
     program |-> 0, time |-> t]

EndOfTrack(t) ==
    [type |-> "end_of_track", channel |-> 0, note |-> 0, velocity |-> 0,
     program |-> 0, time |-> t]

Note(velocity, pitch, start, end) ==
    [velocity |-> velocity, pitch |-> pitch, start |-> start, end |-> end]

Instrument(program, is_drum, name) ==
    [program |-> program, is_drum |-> is_drum, name |-> name, notes |-> <<>>]

add_note(ins, note) == [ins EXCEPT !.notes = Append(@, note)]

(***************************************************************************)
(* MidiLoader.__init__: delta times to absolute ticks, per track.          *)
(***************************************************************************)
RECURSIVE AbsoluteFrom(_, _)
AbsoluteFrom(track, tick) ==
    IF track = <<>> THEN <<>>
    ELSE LET event == [Head(track) EXCEPT !.time = @ + tick]
         IN  <<event>> \o AbsoluteFrom(Tail(track), event.time)

\* Mutant: the running tick of a track starts where the track before ended.
ToAbsolute_CarriesOver(trks) ==
    [i \in DOMAIN trks |->
        AbsoluteFrom(trks[i],
                     IF i = 1 \/ trks[i - 1] = <<>> THEN 0
                     ELSE LET prev == AbsoluteFrom(trks[i - 1], 0)
                          IN  prev[Len(prev)].time)]

ToAbsolute(trks) == [i \in DOMAIN trks |-> AbsoluteFrom(trks[i], 0)]

(***************************************************************************)
(* _load_instruments: collecting and sorting the events.                   *)
(***************************************************************************)
RECURSIVE CollectTrack(_, _)
CollectTrack(track_idx, track) ==
    IF track = <<>> THEN <<>>
    ELSE LET event == Head(track)
             rest == CollectTrack(track_idx, Tail(track))
         IN  IF event.type \in {"program_change", "note_on", "note_off"}
             THEN <<<<track_idx, event>>>> \o rest
             ELSE rest

RECURSIVE CollectFrom(_, _)
CollectFrom(trks, i) ==
    IF i > Len(trks) THEN <<>>
    ELSE CollectTrack(i - 1, trks[i]) \o CollectFrom(trks, i + 1)

CollectEvents(trks) == CollectFrom(trks, 1)

\* Mutant: an element goes in front of the elements of equal key.
RECURSIVE InsertByTime_BeforeTies(_, _)
InsertByTime_BeforeTies(sorted, e) ==
    IF sorted = <<>> THEN <<e>>
    ELSE IF Head(sorted)[2].time < e[2].time
         THEN <<Head(sorted)>> \o InsertByTime_BeforeTies(Tail(sorted), e)
         ELSE <<e>> \o sorted

\* sorted(..., key=lambda e: e[1].time) is stable: an element goes behind
\* every element whose key is not greater.
RECURSIVE InsertByTime(_, _)
InsertByTime(sorted, e) ==
    IF sorted = <<>> THEN <<e>>
    ELSE IF Head(sorted)[2].time <= e[2].time
         THEN <<Head(sorted)>> \o InsertByTime(Tail(sorted), e)
         ELSE <<e>> \o sorted

RECURSIVE SortFrom(_, _, _)
SortFrom(events, i, acc) ==
    IF i > Len(events) THEN acc
    ELSE SortFrom(events, i + 1, InsertByTime(acc, events[i]))

SortedByTime(events) == SortFrom(events, 1, <<>>)

\* track_name_map is a defaultdict(str); the last track_name of a track wins.
RECURSIVE LastTrackName(_, _)
LastTrackName(track, name) ==
    IF track = <<>> THEN name
    ELSE LastTrackName(Tail(track),
                       IF Head(track).type = "track_name"
                       THEN Head(track).name ELSE name)

TrackNames(trks) == [i \in 0 .. Len(trks) - 1 |-> LastTrackName(trks[i + 1], "")]

(***************************************************************************)
(* _load_instruments: __get_instrument and the resolve loop.               *)
(***************************************************************************)
DRUM_CHANNEL == 9

KeyIndex(imap, key) ==
    IF \E i \in DOMAIN imap : imap[i].key = key
    THEN CHOOSE i \in DOMAIN imap : imap[i].key = key
    ELSE 0

\* Mutant: the drum flag taken from the program instead of the channel.
get_instrument_DrumByProgram(imap, names, track_idx, program, channel, track) ==
    IF \E i \in DOMAIN imap : imap[i].key = <<program, channel, track>> THEN imap
    ELSE Append(imap,
                [key |-> <<program, channel, track>>,
                 ins |-> [program |-> program,
                          is_drum |-> (channel = 9 /\ program = 0),
                          name |-> names[track_idx], notes |-> <<>>]])

\* The instrument_map after __get_instrument(program, channel, track);
\* track_idx is the closure variable the collecting loop left behind.
get_instrument(imap, names, track_idx, program, channel, track) ==
    IF KeyIndex(imap, <<program, channel, track>>) # 0 THEN imap
    ELSE Append(imap,
                [key |-> <<program, channel, track>>,
                 ins |-> Instrument(program, channel = DRUM_CHANNEL,
                                    names[track_idx])])

IsNoteOn(event) == event.type = "note_on" /\ event.velocity > 0

IsNoteOff(event) ==
    \/ event.type = "note_off"
    \/ event.type = "note_on" /\ event.velocity = 0

\* Mutant: an entry that is open is kept, the new note_on is dropped.
OpenNote_KeepsFirst(table, key, entry) ==
    IF key \in DOMAIN table THEN table
    ELSE [k \in DOMAIN table \cup {key} |-> IF k = key THEN entry ELSE table[k]]

OpenNote(table, key, entry) ==
    [k \in DOMAIN table \cup {key} |-> IF k = key THEN entry ELSE table[k]]

CloseNote(table, key) == [k \in DOMAIN table \ {key} |-> table[k]]

\* Mutant: the note goes to the program the register holds at the note_off.
ResolveEvent_ProgramAtClose(rs, names, track_idx, te) ==
    LET track_id == te[1]
        event == te[2]
        key == <<track_id, event.channel, event.note>>
        prog == rs.current_instrument[event.channel]
    IN  IF event.type = "program_change"
        THEN [rs EXCEPT !.current_instrument[event.channel] = event.program]
        ELSE IF IsNoteOn(event)
        THEN [rs EXCEPT !.last_note_on =
                 OpenNote(@, key, [prog |-> prog, vel |-> event.velocity,
                                   t |-> event.time])]
        ELSE IF IsNoteOff(event) /\ key \in DOMAIN rs.last_note_on
        THEN LET on == rs.last_note_on[key]
                 imap == get_instrument(rs.instrument_map, names, track_idx,
                                        prog, event.channel, track_id)
                 i == KeyIndex(imap, <<prog, event.channel, track_id>>)
             IN  IF event.time = on.t
                 THEN [rs EXCEPT !.instrument_map = imap]
                 ELSE [rs EXCEPT
                         !.instrument_map =
                             [imap EXCEPT ![i].ins =
                                 add_note(@, Note(on.vel, event.note, on.t,
                                                  event.time))],
                         !.last_note_on = CloseNote(@, key)]
        ELSE rs

\* Mutant: a note_off without an open note still creates its instrument.
ResolveEvent_SpuriousCreates(rs, names, track_idx, te) ==
    LET track_id == te[1]
        event == te[2]
        key == <<track_id, event.channel, event.note>>
    IN  IF event.type = "program_change"
        THEN [rs EXCEPT !.current_instrument[event.channel] = event.program]
        ELSE IF IsNoteOn(event)
        THEN [rs EXCEPT !.last_note_on =
                 OpenNote(@, key,
                          [prog |-> rs.current_instrument[event.channel],
                           vel |-> event.velocity, t |-> event.time])]
        ELSE IF IsNoteOff(event) /\ key \in DOMAIN rs.last_note_on
        THEN LET on == rs.last_note_on[key]
                 imap == get_instrument(rs.instrument_map, names, track_idx,
                                        on.prog, event.channel, track_id)
                 i == KeyIndex(imap, <<on.prog, event.channel, track_id>>)
             IN  IF event.time = on.t
                 THEN [rs EXCEPT !.instrument_map = imap]
                 ELSE [rs EXCEPT
                         !.instrument_map =
                             [imap EXCEPT ![i].ins =
                                 add_note(@, Note(on.vel, event.note, on.t,
                                                  event.time))],
                         !.last_note_on = CloseNote(@, key)]
        ELSE IF IsNoteOff(event)
        THEN [rs EXCEPT !.instrument_map =
                 get_instrument(@, names, track_idx,
                                rs.current_instrument[event.channel],
                                event.channel, track_id)]
        ELSE rs

\* One iteration of the loop over all_events; rs holds the loop's locals.
\* Mutant: the Instrument is made when the note is opened.
ResolveEvent_CreatesAtOpen(rs, names, track_idx, te) ==
    LET track_id == te[1]
        event == te[2]
        key == <<track_id, event.channel, event.note>>
    IN  IF event.type = "program_change"
        THEN [rs EXCEPT !.current_instrument[event.channel] = event.program]
        ELSE IF IsNoteOn(event)
        THEN [rs EXCEPT
                !.instrument_map =
                    get_instrument(@, names, track_idx,
                                   rs.current_instrument[event.channel],
                                   event.channel, track_id),
                !.last_note_on =
                    OpenNote(@, key,
                             [prog |-> rs.current_instrument[event.channel],
                              vel |-> event.velocity, t |-> event.time])]
        ELSE IF IsNoteOff(event) /\ key \in DOMAIN rs.last_note_on
        THEN LET on == rs.last_note_on[key]
                 imap == get_instrument(rs.instrument_map, names, track_idx,
                                        on.prog, event.channel, track_id)
                 i == KeyIndex(imap, <<on.prog, event.channel, track_id>>)
             IN  IF event.time = on.t
                 THEN [rs EXCEPT !.instrument_map = imap]
                 ELSE [rs EXCEPT
                         !.instrument_map =
                             [imap EXCEPT ![i].ins =
                                 add_note(@, Note(on.vel, event.note, on.t,
                                                  event.time))],
                         !.last_note_on = CloseNote(@, key)]
        ELSE rs

\* Mutant: a program_change also forgets the open notes.
ResolveEvent_ProgramClosesNotes(rs, names, track_idx, te) ==
    LET track_id == te[1]
        event == te[2]
        key == <<track_id, event.channel, event.note>>
    IN  IF event.type = "program_change"
        THEN [rs EXCEPT !.current_instrument[event.channel] = event.program,
                        !.last_note_on = [k \in {} |-> 0]]
        ELSE IF IsNoteOn(event)
        THEN [rs EXCEPT !.last_note_on =
                 OpenNote(@, key,
                          [prog |-> rs.current_instrument[event.channel],
                           vel |-> event.velocity, t |-> event.time])]
        ELSE IF IsNoteOff(event) /\ key \in DOMAIN rs.last_note_on
        THEN LET on == rs.last_note_on[key]
                 imap == get_instrument(rs.instrument_map, names, track_idx,
                                        on.prog, event.channel, track_id)
                 i == KeyIndex(imap, <<on.prog, event.channel, track_id>>)
             IN  IF event.time = on.t
                 THEN [rs EXCEPT !.instrument_map = imap]
                 ELSE [rs EXCEPT
                         !.instrument_map =
                             [imap EXCEPT ![i].ins =
                                 add_note(@, Note(on.vel, event.note, on.t,
                                                  event.time))],
                         !.last_note_on = CloseNote(@, key)]
        ELSE rs

\* Mutant: a note_off at the tick of its note_on closes a Note as well.
ResolveEvent_KeepsZeroDuration(rs, names, track_idx, te) ==
    LET track_id == te[1]
        event == te[2]
        key == <<track_id, event.channel, event.note>>
    IN  IF event.type = "program_change"
        THEN [rs EXCEPT !.current_instrument[event.channel] = event.program]
        ELSE IF IsNoteOn(event)
        THEN [rs EXCEPT !.last_note_on =
                 OpenNote(@, key,
                          [prog |-> rs.current_instrument[event.channel],
                           vel |-> event.velocity, t |-> event.time])]
        ELSE IF IsNoteOff(event) /\ key \in DOMAIN rs.last_note_on
        THEN LET on == rs.last_note_on[key]
                 imap == get_instrument(rs.instrument_map, names, track_idx,
                                        on.prog, event.channel, track_id)
                 i == KeyIndex(imap, <<on.prog, event.channel, track_id>>)
             IN  [rs EXCEPT
                    !.instrument_map =
                        [imap EXCEPT ![i].ins =
                            add_note(@, Note(on.vel, event.note, on.t,
                                             event.time))],
                    !.last_note_on = CloseNote(@, key)]
        ELSE rs

ResolveEvent(rs, names, track_idx, te) ==
    LET track_id == te[1]
        event == te[2]
        key == <<track_id, event.channel, event.note>>
    IN  IF event.type = "program_change"
        THEN [rs EXCEPT !.current_instrument[event.channel] = event.program]
        ELSE IF IsNoteOn(event)
        THEN [rs EXCEPT !.last_note_on =
                 OpenNote(@, key,
                          [prog |-> rs.current_instrument[event.channel],
                           vel |-> event.velocity, t |-> event.time])]
        ELSE IF IsNoteOff(event) /\ key \in DOMAIN rs.last_note_on
        THEN LET on == rs.last_note_on[key]
                 imap == get_instrument(rs.instrument_map, names, track_idx,
                                        on.prog, event.channel, track_id)
                 i == KeyIndex(imap, <<on.prog, event.channel, track_id>>)
             IN  IF event.time = on.t
                 THEN [rs EXCEPT !.instrument_map = imap]
                 ELSE [rs EXCEPT
                         !.instrument_map =
                             [imap EXCEPT ![i].ins =
                                 add_note(@, Note(on.vel, event.note, on.t,
                                                  event.time))],
                         !.last_note_on = CloseNote(@, key)]
        ELSE rs

InitialResolver ==
    [current_instrument |-> [c \in AllChannels |-> 0],
     last_note_on |-> [k \in {} |-> 0],
     instrument_map |-> <<>>]

InstrumentList(imap) == [i \in DOMAIN imap |-> imap[i].ins]

(***************************************************************************)
(* The loader as a state machine: the tracks as mido read them, then       *)
(* __init__'s normalization, then _load_instruments event by event.        *)
(***************************************************************************)
SeqsUpTo(S, n) == UNION {[1 .. k -> S] : k \in 0 .. n}

RawEvents ==
    {ProgramChange(ch, prog, d) : ch \in Channels, prog \in Programs, d \in Deltas}
    \cup {NoteOnMsg(ch, n, vel, d) :
              ch \in Channels, n \in Pitches, vel \in Velocities, d \in Deltas}
    \cup {NoteOffMsg(ch, n, 0, d) : ch \in Channels, n \in Pitches, d \in Deltas}

\* mido ends every track it reads with an end_of_track message.
RawTrack(events) == events \o <<EndOfTrack(0)>>

TicksPerBeat == 480

InitLoader ==
    /\ pc = "read"
    /\ \E s1 \in SeqsUpTo(RawEvents, MaxEvents) :
         \E s2 \in SeqsUpTo(RawEvents, MaxEvents - Len(s1)) :
            /\ Len(s2) \in SecondTrackLengths
            /\ tracks = <<RawTrack(<<>>), RawTrack(s1), RawTrack(s2)>>
    /\ all_events = <<>>
    /\ idx = 0
    /\ current_instrument = InitialResolver.current_instrument
    /\ last_note_on = InitialResolver.last_note_on
    /\ instrument_map = InitialResolver.instrument_map
    /\ track_name_map = <<>>
    /\ instruments = <<>>
    /\ resolution = 0
    /\ key_signatures = <<>>
    /\ time_signatures = <<>>
    /\ tempo_changes = <<>>
    /\ warnings = {}
    /\ loaded = <<>>
    /\ piano_roll = <<>>
    /\ before = <<>>
    /\ arg = <<>>

\* __init__: convert tick to absolute, self.resolution
Normalize ==
    /\ pc = "read"
    /\ tracks' = ToAbsolute(tracks)
    /\ resolution' = TicksPerBeat
    /\ pc' = "normalized"
    /\ UNCHANGED <<resolverVars, instruments, loaderFrame>>

\* _load_instruments up to the resolve loop
LoadInstrumentsBegin ==
    /\ pc = "normalized"
    /\ track_name_map' = TrackNames(tracks)
    /\ all_events' = SortedByTime(CollectEvents(tracks))
    /\ current_instrument' = InitialResolver.current_instrument
    /\ last_note_on' = InitialResolver.last_note_on
    /\ instrument_map' = InitialResolver.instrument_map
    /\ idx' = 1
    /\ pc' = "resolve"
    /\ UNCHANGED <<tracks, instruments, resolution, loaderFrame>>

ResolverState ==
    [current_instrument |-> current_instrument,
     last_note_on |-> last_note_on,
     instrument_map |-> instrument_map]

\* one iteration of the resolve loop
ResolveStep ==
    /\ pc = "resolve"
    /\ idx <= Len(all_events)
    /\ LET rs == ResolveEvent(ResolverState, track_name_map, Len(tracks) - 1,
                              all_events[idx])
       IN  /\ current_instrument' = rs.current_instrument
           /\ last_note_on' = rs.last_note_on
           /\ instrument_map' = rs.instrument_map
    /\ idx' = idx + 1
    /\ UNCHANGED <<pc, tracks, all_events, track_name_map, instruments,
                   resolution, loaderFrame>>

\* self.instruments = [i for i in instrument_map.values()]
LoadInstrumentsEnd ==
    /\ pc = "resolve"
    /\ idx > Len(all_events)
    /\ instruments' = InstrumentList(instrument_map)
    /\ pc' = "done"
    /\ UNCHANGED <<tracks, resolverVars, resolution, loaderFrame>>

Next == Normalize \/ LoadInstrumentsBegin \/ ResolveStep \/ LoadInstrumentsEnd

Spec == InitLoader /\ [][Next]_vars

(***************************************************************************)
(* Properties of the resolver, stated over the merged sequence.            *)
(***************************************************************************)
EventAt(i) == all_events[i][2]

TrackAt(i) == all_events[i][1]

KeyAt(i) == <<TrackAt(i), EventAt(i).channel, EventAt(i).note>>

Processed == 1 .. idx - 1

\* The program of the last program_change on channel ch before position i.
ProgramBefore(i, ch) ==
    LET S == {j \in 1 .. i - 1 : /\ EventAt(j).type = "program_change"
                                 /\ EventAt(j).channel = ch}
    IN  IF S = {} THEN 0
        ELSE EventAt(CHOOSE j \in S : \A k \in S : k <= j).program

\* Note n of the instrument keyed key was opened at i and closed at j.
OpenedAndClosed(key, n, i, j) ==
    /\ i < j
    /\ IsNoteOn(EventAt(i))
    /\ IsNoteOff(EventAt(j))
    /\ KeyAt(i) = <<key[3], key[2], n.pitch>>
    /\ KeyAt(j) = KeyAt(i)
    /\ EventAt(i).velocity = n.velocity
    /\ EventAt(i).time = n.start
    /\ EventAt(j).time = n.end
    /\ ProgramBefore(i, key[2]) = key[1]
    /\ \A k \in i + 1 .. j - 1 : ~(IsNoteOn(EventAt(k)) /\ KeyAt(k) = KeyAt(i))

\* C2: every Note sits in the Instrument keyed by (program the channel's
\* register held when its note_on was processed, channel, track), as
\* Note(velocity of the note_on, pitch, open tick, close tick); a
\* program_change between the note_on and the note_off does not move it.
C2_NoteKeyedByProgramAtOpen ==
    pc \in {"resolve", "done"} =>
        \A m \in DOMAIN instrument_map :
            LET key == instrument_map[m].key
                ins == instrument_map[m].ins
            IN  /\ ins.program = key[1]
                /\ \A q \in DOMAIN ins.notes :
                       \E i \in Processed, j \in Processed :
                           OpenedAndClosed(key, ins.notes[q], i, j)

C2_Witness ==
    /\ pc = "done"
    /\ \E m \in DOMAIN instrument_map :
          LET key == instrument_map[m].key
              ins == instrument_map[m].ins
          IN  \E q \in DOMAIN ins.notes, i \in Processed, j \in Processed :
                  /\ OpenedAndClosed(key, ins.notes[q], i, j)
                  /\ \E k \in i + 1 .. j - 1 :
                        /\ EventAt(k).type = "program_change"
                        /\ EventAt(k).channel = key[2]
                        /\ EventAt(k).program # key[1]

NoteStartsAt(track, channel, pitch, tick) ==
    \E m \in DOMAIN instrument_map :
        /\ instrument_map[m].key[2] = channel
        /\ instrument_map[m].key[3] = track
        /\ \E q \in DOMAIN instrument_map[m].ins.notes :
              /\ instrument_map[m].ins.notes[q].pitch = pitch
              /\ instrument_map[m].ins.notes[q].start = tick

\* C3: a note_on directly followed by a note_off (or zero-velocity note_on)
\* of the same (track, channel, pitch) at the same tick yields no Note with
\* that start tick, whatever follows.
C3_ZeroDurationYieldsNoNote ==
    pc \in {"resolve", "done"} =>
        \A i \in 1 .. Len(all_events) - 1 :
            ( /\ IsNoteOn(EventAt(i))
              /\ IsNoteOff(EventAt(i + 1))
              /\ KeyAt(i + 1) = KeyAt(i)
              /\ EventAt(i + 1).time = EventAt(i).time )
            => ~NoteStartsAt(TrackAt(i), EventAt(i).channel, EventAt(i).note,
                             EventAt(i).time)

SpuriousOffNext ==
    /\ pc = "resolve"
    /\ idx <= Len(all_events)
    /\ IsNoteOff(EventAt(idx))
    /\ KeyAt(idx) \notin DOMAIN last_note_on

\* C4: a note_off (or zero-velocity note_on) without an open note leaves the
\* program register, the open-note table and the instrument table as they
\* are, and the loop goes on to the next event.
C4_SpuriousOffDiscarded ==
    [][SpuriousOffNext =>
          /\ UNCHANGED <<current_instrument, last_note_on, instrument_map>>
          /\ idx' = idx + 1
          /\ pc' = "resolve"]_vars

C4_Witness ==
    /\ pc = "resolve"
    /\ idx = 2
    /\ Len(all_events) >= 2
    /\ IsNoteOff(EventAt(1))

\* C7: an Instrument of the resolver is a drum instrument exactly when the
\* channel of its key is 9, whatever programs were set.
C7_DrumIffChannelNine ==
    /\ \A m \in DOMAIN instrument_map :
          instrument_map[m].ins.is_drum = (instrument_map[m].key[2] = 9)
    /\ pc = "done" =>
          \A m \in DOMAIN instruments :
              instruments[m].is_drum = (instrument_map[m].key[2] = 9)

C7_Witness ==
    /\ pc = "done"
    /\ \E m \in DOMAIN instruments :
          /\ instrument_map[m].key = <<40, 9, 1>>
          /\ instruments[m].is_drum
          /\ instruments[m].notes # <<>>

(***************************************************************************)
(* MidiLoader.write: the document laid out as delta-coded tracks.          *)
(***************************************************************************)
KeySignature(key_number, time) == [key_number |-> key_number, time |-> time]

TimeSignature(numerator, denominator, time) ==
    [numerator |-> numerator, denominator |-> denominator, time |-> time]

TempoChange(tempo, time) == [tempo |-> tempo, time |-> time]

TimeSignatureMsg(ts) ==
    [type |-> "time_signature", numerator |-> ts.numerator,
     denominator |-> ts.denominator, time |-> ts.time]

\* write reads ks.key and tc.bpm; KeySignature has key_number and
\* TempoChange has tempo, so either read raises AttributeError.
WriteRaises(ks_list, tc_list) == ks_list # <<>> \/ tc_list # <<>>

\* Mutant: a message goes before the messages of its own tick.
RECURSIVE InsertMsg_BeforeTies(_, _)
InsertMsg_BeforeTies(sorted, msg) ==
    IF sorted = <<>> THEN <<msg>>
    ELSE IF Head(sorted).time < msg.time
         THEN <<Head(sorted)>> \o InsertMsg_BeforeTies(Tail(sorted), msg)
         ELSE <<msg>> \o sorted

\* sorted(..., key=lambda msg: msg.time), stable
RECURSIVE InsertMsg(_, _)
InsertMsg(sorted, msg) ==
    IF sorted = <<>> THEN <<msg>>
    ELSE IF Head(sorted).time <= msg.time
         THEN <<Head(sorted)>> \o InsertMsg(Tail(sorted), msg)
         ELSE <<msg>> \o sorted

RECURSIVE SortMsgsFrom(_, _, _)
SortMsgsFrom(msgs, i, acc) ==
    IF i > Len(msgs) THEN acc
    ELSE SortMsgsFrom(msgs, i + 1, InsertMsg(acc, msgs[i]))

SortedMsgs(msgs) == SortMsgsFrom(msgs, 1, <<>>)

\* time - now for each message, now being the tick of the one before
RECURSIVE DeltaFrom(_, _)
DeltaFrom(msgs, now) ==
    IF msgs = <<>> THEN <<>>
    ELSE <<[Head(msgs) EXCEPT !.time = @ - now]>>
         \o DeltaFrom(Tail(msgs), Head(msgs).time)

MetaTrack(ts_list) ==
    DeltaFrom(SortedMsgs([i \in DOMAIN ts_list |-> TimeSignatureMsg(ts_list[i])]), 0)

RECURSIVE NoteMsgs(_, _)
NoteMsgs(notes, channel) ==
    IF notes = <<>> THEN <<>>
    ELSE LET n == Head(notes)
         IN  <<NoteOnMsg(channel, n.pitch, n.velocity, n.start),
               NoteOffMsg(channel, n.pitch, 0, n.end)>>
             \o NoteMsgs(Tail(notes), channel)

InstrumentTrack(instr, channel) ==
    <<ProgramChange(channel, instr.program, 0)>>
    \o DeltaFrom(SortedMsgs(NoteMsgs(instr.notes, channel)), 0)

LAST_CHANNEL == 15

\* the loop over self.instruments, from the i-th instrument on
RECURSIVE WriteInstruments(_, _, _)
WriteInstruments(instrs, i, current_channel) ==
    IF i > Len(instrs) THEN <<>>
    ELSE LET instr == instrs[i]
             channel == IF instr.is_drum THEN DRUM_CHANNEL ELSE current_channel
             track == InstrumentTrack(instr, channel)
         IN  IF instr.is_drum
             THEN <<track>> \o WriteInstruments(instrs, i + 1, current_channel)
             ELSE IF current_channel + 1 > LAST_CHANNEL
                  THEN <<track>>
                  ELSE <<track>>
                       \o WriteInstruments(instrs, i + 1, current_channel + 1)

NonDrums(instrs) == {i \in DOMAIN instrs : ~instrs[i].is_drum}

TOO_MANY == 15

WriteWarnings(instrs) ==
    IF Cardinality(NonDrums(instrs)) > TOO_MANY
    THEN {"Synthesizing with more than 15 instruments is not supported"}
    ELSE {}

\* mid.save: every track of the file ends with end_of_track
SavedTracks(trks) == [i \in DOMAIN trks |-> RawTrack(trks[i])]

WriteTracks(instrs, ts_list) ==
    SavedTracks(<<MetaTrack(ts_list)>> \o WriteInstruments(instrs, 1, 0))

(***************************************************************************)
(* The writer as a state machine: a document, then write.                  *)
(***************************************************************************)
MaxInstruments == 17
MaxDrums == 1

\* The i-th instrument of a written document: its program and the pitch of
\* its note tell it from the others.
NthInstrument(i, is_drum) ==
    [program |-> i, is_drum |-> is_drum, name |-> "",
     notes |-> <<Note(80, 60 + i, 0, 2)>>]

DrumPlacements(n) == {D \in SUBSET (1 .. n) : Cardinality(D) <= MaxDrums}

InitWriter ==
    /\ pc = "document"
    /\ \E n \in 0 .. MaxInstruments : \E D \in DrumPlacements(n) :
          instruments = [i \in 1 .. n |-> NthInstrument(i, i \in D)]
    /\ resolution = TicksPerBeat
    /\ key_signatures \in {<<>>, <<KeySignature(0, 0)>>}
    /\ time_signatures \in {<<>>, <<TimeSignature(4, 4, 0)>>,
                             <<TimeSignature(3, 4, 2), TimeSignature(4, 4, 0)>>}
    /\ tempo_changes \in {<<>>, <<TempoChange(120, 0)>>}
    /\ tracks = <<>>
    /\ all_events = <<>>
    /\ idx = 0
    /\ current_instrument = InitialResolver.current_instrument
    /\ last_note_on = InitialResolver.last_note_on
    /\ instrument_map = InitialResolver.instrument_map
    /\ track_name_map = <<>>
    /\ warnings = {}
    /\ loaded = <<>>
    /\ piano_roll = <<>>
    /\ before = <<>>
    /\ arg = <<>>

writerFrame == <<resolverVars, instruments, resolution, metaVars, loaded,
                 piano_roll, before, arg>>

\* write, when reading the key signatures or tempo changes raises
WriteFails ==
    /\ pc = "document"
    /\ WriteRaises(key_signatures, tempo_changes)
    /\ pc' = "error"
    /\ UNCHANGED <<tracks, warnings, writerFrame>>

\* write, up to mid.save
Write ==
    /\ pc = "document"
    /\ ~WriteRaises(key_signatures, tempo_changes)
    /\ warnings' = warnings \cup WriteWarnings(instruments)
    /\ tracks' = WriteTracks(instruments, time_signatures)
    /\ pc' = "written"
    /\ UNCHANGED writerFrame

NextWrite == WriteFails \/ Write

SpecWrite == InitWriter /\ [][NextWrite]_vars

(***************************************************************************)
(* Properties of the written tracks.  Track j + 1 of the file is the track *)
(* of the j-th instrument of the document.                                 *)
(***************************************************************************)
EmittedInstruments == {j \in DOMAIN instruments : j + 1 <= Len(tracks)}

TrackChannels(track) ==
    {track[k].channel : k \in {x \in DOMAIN track :
        track[x].type \in {"program_change", "note_on", "note_off"}}}

\* The q-th non-drum instrument of the document (q counted from 0).
NonDrumRank(j) == Cardinality({i \in NonDrums(instruments) : i < j})

PitchesOf(track) ==
    {track[k].note : k \in {x \in DOMAIN track :
        track[x].type \in {"note_on", "note_off"}}}

PitchesIn(trks) == UNION {PitchesOf(trks[t]) : t \in DOMAIN trks}

\* C5: of a document with 16 non-drum instruments, 15 non-drum instrument
\* tracks are written, the warning is raised and write completes, and no
\* note of the 16th non-drum instrument is in a written track.
C5_SixteenthInstrumentDropped ==
    (pc = "written" /\ Cardinality(NonDrums(instruments)) = 16) =>
        /\ warnings # {}
        /\ Cardinality(EmittedInstruments \cap NonDrums(instruments)) = 15
        /\ \A j \in NonDrums(instruments) :
              NonDrumRank(j) = 15 =>
                  \A q \in DOMAIN instruments[j].notes :
                      instruments[j].notes[q].pitch \notin PitchesIn(tracks)

SkippingNine(rank) == IF rank < 9 THEN rank ELSE rank + 1

\* C6: a written drum instrument uses channel 9 and the written non-drum
\* instruments, in document order, use the channels 0, 1, 2, ... without 9.
C6_ChannelsSkipNine ==
    pc = "written" =>
        \A j \in EmittedInstruments :
            TrackChannels(tracks[j + 1]) =
                {IF instruments[j].is_drum THEN 9
                 ELSE SkippingNine(NonDrumRank(j))}

(***************************************************************************)
(* Write, then load what was written: MidiLoader(midi_file) on the file of *)
(* write, without a resolution argument.                                   *)
(***************************************************************************)
RECURSIVE ResolveFrom(_, _, _, _, _)
ResolveFrom(rs, names, track_idx, events, i) ==
    IF i > Len(events) THEN rs
    ELSE ResolveFrom(ResolveEvent(rs, names, track_idx, events[i]),
                     names, track_idx, events, i + 1)

\* _load_instruments on normalized tracks
LoadInstruments(trks) ==
    InstrumentList(
        ResolveFrom(InitialResolver, TrackNames(trks), Len(trks) - 1,
                    SortedByTime(CollectEvents(trks)), 1).instrument_map)

\* len(midi_data.tracks) <= 1
TooFewTracks(trks) == Len(trks) <= 1

RtMaxInstruments == 2
RtMaxNotes == 2
RtMaxTick == 2
RtPrograms == {0, 40}

RtNotes ==
    {Note(80, 60, start, end) :
        <<start, end>> \in {x \in (0 .. RtMaxTick) \X (0 .. RtMaxTick) : x[1] < x[2]}}

\* no two notes of one pitch sound at the same tick (they may touch)
NoSamePitchOverlap(notes) ==
    \A i, j \in DOMAIN notes :
        (i < j /\ notes[i].pitch = notes[j].pitch) =>
            \/ notes[i].end <= notes[j].start
            \/ notes[j].end <= notes[i].start

RtInstruments ==
    {[program |-> program, is_drum |-> is_drum, name |-> "", notes |-> notes] :
        program \in RtPrograms, is_drum \in BOOLEAN,
        notes \in {ns \in SeqsUpTo(RtNotes, RtMaxNotes) : NoSamePitchOverlap(ns)}}

InitRoundTrip ==
    /\ pc = "document"
    /\ instruments \in SeqsUpTo(RtInstruments, RtMaxInstruments)
    /\ resolution = TicksPerBeat
    /\ key_signatures = <<>>
    /\ time_signatures \in {<<>>, <<TimeSignature(4, 4, 0)>>}
    /\ tempo_changes \in {<<>>, <<TempoChange(120, 0)>>}
    /\ tracks = <<>>
    /\ all_events = <<>>
    /\ idx = 0
    /\ current_instrument = InitialResolver.current_instrument
    /\ last_note_on = InitialResolver.last_note_on
    /\ instrument_map = InitialResolver.instrument_map
    /\ track_name_map = <<>>
    /\ warnings = {}
    /\ loaded = <<>>
    /\ piano_roll = <<>>
    /\ before = <<>>
    /\ arg = <<>>

\* MidiLoader.__init__ on a file with a single track
LoadFails ==
    /\ pc = "written"
    /\ TooFewTracks(tracks)
    /\ pc' = "error"
    /\ UNCHANGED <<tracks, warnings, loaded, resolverVars, instruments,
                   resolution, metaVars, piano_roll, before, arg>>

\* MidiLoader.__init__ on the written file: normalize, resolve
Load ==
    /\ pc = "written"
    /\ ~TooFewTracks(tracks)
    /\ loaded' = LoadInstruments(ToAbsolute(tracks))
    /\ pc' = "loaded"
    /\ UNCHANGED <<tracks, warnings, resolverVars, instruments, resolution,
                   metaVars, piano_roll, before, arg>>

NextRoundTrip == WriteFails \/ Write \/ LoadFails \/ Load

SpecRoundTrip == InitRoundTrip /\ [][NextRoundTrip]_vars

Range(seq) == {seq[i] : i \in DOMAIN seq}

\* a sequence as a multiset: element -> number of occurrences
BagOf(seq) ==
    [x \in Range(seq) |-> Cardinality({i \in DOMAIN seq : seq[i] = x})]

InstrumentSignature(ins) == <<ins.program, ins.is_drum, BagOf(ins.notes)>>

WithNotes(instrs) == SelectSeq(instrs, LAMBDA ins : ins.notes # <<>>)

DocumentSignature(instrs) ==
    LET kept == WithNotes(instrs)
    IN  BagOf([i \in DOMAIN kept |-> InstrumentSignature(kept[i])])

\* C1: writing a document (all notes start < end, at most 15 non-drum
\* instruments) and loading what was written gives, instrument by
\* instrument, the same multiset of notes under the same program and
\* is_drum, in whatever order the notes are held.
C1_WriteLoadRoundTrip ==
    pc = "loaded" => DocumentSignature(loaded) = DocumentSignature(instruments)

(***************************************************************************)
(* The piano-roll codec.  A matrix is its shape and its rows; cell [t, p]  *)
(* of the code is rows[t + 1][p + 1].                                      *)
(***************************************************************************)
NUM_PITCHES == 128

Matrix(shape, rows) == [shape |-> shape, rows |-> rows]

\* np.zeros((n, 128))
Zeros(n) == Matrix(<<n, NUM_PITCHES>>, [t \in 1 .. n |-> [p \in 1 .. NUM_PITCHES |-> 0]])

\* np.array([[] * 128]): one row without columns
EmptyRoll == Matrix(<<1, 0>>, <<<<>>>>)

Min(a, b) == IF a <= b THEN a ELSE b

\* Instrument.get_end_time
get_end_time(notes) ==
    IF notes = <<>> THEN 0
    ELSE LET ends == {notes[i].end : i \in DOMAIN notes}
         IN  CHOOSE e \in ends : \A x \in ends : x <= e

\* piano_roll[start:end, n.pitch] += n.velocity, unless start >= end_time
AddToRoll(roll, n, end_time) ==
    IF n.start >= end_time THEN roll
    ELSE LET end == Min(n.end, end_time)
         IN  [roll EXCEPT !.rows =
                 [t \in DOMAIN roll.rows |->
                     IF n.start <= t - 1 /\ t - 1 < end
                     THEN [roll.rows[t] EXCEPT ![n.pitch + 1] = @ + n.velocity]
                     ELSE roll.rows[t]]]

RECURSIVE FillRoll(_, _, _, _)
FillRoll(roll, notes, i, end_time) ==
    IF i > Len(notes) THEN roll
    ELSE FillRoll(AddToRoll(roll, notes[i], end_time), notes, i + 1, end_time)

\* Instrument.get_piano_roll(end_time); bound is <<>> for None, else <<end_time>>
get_piano_roll(notes, bound) ==
    IF notes = <<>> THEN EmptyRoll
    ELSE LET end_time == IF bound = <<>> THEN get_end_time(notes) ELSE bound[1]
         IN  FillRoll(Zeros(end_time), notes, 1, end_time)

\* Mutant: a change of value inside a run ends the note and starts another.
RECURSIVE DecodeColumn_SplitsOnChange(_, _, _, _, _)
DecodeColumn_SplitsOnChange(roll, pitch, t, prev_val, start_t) ==
    IF t >= roll.shape[1]
    THEN IF prev_val # 0
         THEN <<Note(prev_val, pitch, start_t, roll.shape[1])>>
         ELSE <<>>
    ELSE LET curr_val == roll.rows[t + 1][pitch + 1]
         IN  IF prev_val # 0 /\ curr_val # prev_val
             THEN <<Note(prev_val, pitch, start_t, t)>>
                  \o DecodeColumn_SplitsOnChange(roll, pitch, t + 1, curr_val,
                                                 IF curr_val # 0 THEN t ELSE -1)
             ELSE DecodeColumn_SplitsOnChange(
                      roll, pitch, t + 1, curr_val,
                      IF prev_val = 0 /\ curr_val # 0 THEN t ELSE start_t)

\* Mutant: the run that lasts to the last frame is not added.
RECURSIVE DecodeColumn_NoTail(_, _, _, _, _)
DecodeColumn_NoTail(roll, pitch, t, prev_val, start_t) ==
    IF t >= roll.shape[1]
    THEN <<>>
    ELSE LET curr_val == roll.rows[t + 1][pitch + 1]
             started == IF prev_val = 0 /\ curr_val # 0 THEN t ELSE start_t
         IN  IF prev_val # 0 /\ curr_val = 0
             THEN <<Note(prev_val, pitch, started, t)>>
                  \o DecodeColumn_NoTail(roll, pitch, t + 1, curr_val, -1)
             ELSE DecodeColumn_NoTail(roll, pitch, t + 1, curr_val, started)

\* the loop over t for one pitch, from row t on
RECURSIVE DecodeColumn(_, _, _, _, _)
DecodeColumn(roll, pitch, t, prev_val, start_t) ==
    IF t >= roll.shape[1]
    THEN IF prev_val # 0
         THEN <<Note(prev_val, pitch, start_t, roll.shape[1])>>
         ELSE <<>>
    ELSE LET curr_val == roll.rows[t + 1][pitch + 1]
             started == IF prev_val = 0 /\ curr_val # 0 THEN t ELSE start_t
         IN  IF prev_val # 0 /\ curr_val = 0
             THEN <<Note(prev_val, pitch, started, t)>>
                  \o DecodeColumn(roll, pitch, t + 1, curr_val, -1)
             ELSE DecodeColumn(roll, pitch, t + 1, curr_val, started)

\* the loop over the pitches lo .. hi - 1, the notes in the order the loop
\* adds them (the range is halved to keep the evaluation shallow)
RECURSIVE DecodeRange(_, _, _)
DecodeRange(roll, lo, hi) ==
    IF hi <= lo THEN <<>>
    ELSE IF hi = lo + 1 THEN DecodeColumn(roll, lo, 0, 0, -1)
    ELSE LET mid == (lo + hi) \div 2
         IN  DecodeRange(roll, lo, mid) \o DecodeRange(roll, mid, hi)

\* get_instrument_from_piano_roll raises ValueError on such a roll
BadRollShape(roll) == Len(roll.shape) # 2 \/ roll.shape[2] # NUM_PITCHES

\* get_instrument_from_piano_roll(roll), program 0, not a drum, no name
get_instrument_from_piano_roll(roll) ==
    [Instrument(0, FALSE, "") EXCEPT !.notes = DecodeRange(roll, 0, roll.shape[2])]

(***************************************************************************)
(* The codec as a state machine: an instrument, its roll, the instrument   *)
(* decoded from the roll.                                                  *)
(***************************************************************************)
RollMaxNotes == 2
RollMaxTick == 3
\* <<pitch, velocity>> of the notes tried
RollKinds == {<<60, 80>>, <<60, 100>>, <<61, 80>>}

RollNotes ==
    {Note(kind[2], kind[1], x[1], x[2]) :
        kind \in RollKinds,
        x \in {y \in (0 .. RollMaxTick) \X (0 .. RollMaxTick) : y[1] < y[2]}}

InitRoll ==
    /\ pc = "instrument"
    /\ \E notes \in SeqsUpTo(RollNotes, RollMaxNotes) :
          instruments = <<[Instrument(0, FALSE, "") EXCEPT !.notes = notes]>>
    /\ arg = <<>>
    /\ resolution = TicksPerBeat
    /\ key_signatures = <<>>
    /\ time_signatures = <<>>
    /\ tempo_changes = <<>>
    /\ tracks = <<>>
    /\ all_events = <<>>
    /\ idx = 0
    /\ current_instrument = InitialResolver.current_instrument
    /\ last_note_on = InitialResolver.last_note_on
    /\ instrument_map = InitialResolver.instrument_map
    /\ track_name_map = <<>>
    /\ warnings = {}
    /\ loaded = <<>>
    /\ piano_roll = <<>>
    /\ before = <<>>

rollFrame == <<tracks, resolverVars, instruments, resolution, metaVars,
               warnings, before, arg>>

\* roll = instr.get_piano_roll()
GetPianoRoll ==
    /\ pc = "instrument"
    /\ piano_roll' = get_piano_roll(instruments[1].notes, arg)
    /\ pc' = "roll"
    /\ UNCHANGED <<loaded, rollFrame>>

\* get_instrument_from_piano_roll(roll) raising ValueError
DecodeFails ==
    /\ pc = "roll"
    /\ BadRollShape(piano_roll)
    /\ pc' = "error"
    /\ UNCHANGED <<loaded, piano_roll, rollFrame>>

\* instr = get_instrument_from_piano_roll(roll)
Decode ==
    /\ pc = "roll"
    /\ ~BadRollShape(piano_roll)
    /\ loaded' = <<get_instrument_from_piano_roll(piano_roll)>>
    /\ pc' = "decoded"
    /\ UNCHANGED <<piano_roll, rollFrame>>

NextRoll == GetPianoRoll \/ DecodeFails \/ Decode

SpecRoll == InitRoll /\ [][NextRoll]_vars

(***************************************************************************)
(* Properties of the codec.                                                *)
(***************************************************************************)
\* any two notes of one pitch have at least one silent tick between them
Separated(notes) ==
    \A i, j \in DOMAIN notes :
        (i # j /\ notes[i].pitch = notes[j].pitch) =>
            \/ notes[i].end < notes[j].start
            \/ notes[j].end < notes[i].start

Audible(notes) == \A i \in DOMAIN notes : notes[i].velocity # 0

\* two notes of one pitch, the second starting at the tick the first ends
HasTouchingNotes(notes) ==
    \E i, j \in DOMAIN notes :
        /\ notes[i].pitch = notes[j].pitch
        /\ notes[i].end = notes[j].start

PyRound_Floor(num, den) == num \div den

\* round(num / den) for num >= 0, den > 0
PyRound(num, den) ==
    LET q == num \div den
        r == num % den
    IN  IF 2 * r < den THEN q
        ELSE IF 2 * r > den THEN q + 1
        ELSE IF q % 2 = 0 THEN q ELSE q + 1

\* the loop of Instrument.change_resolution from the i-th note on
RECURSIVE RescaleFrom(_, _, _, _, _)
RescaleFrom(notes, i, num, den, discard_short_notes) ==
    IF i > Len(notes) THEN notes
    ELSE LET start == PyRound(notes[i].start * num, den)
             end == PyRound(notes[i].end * num, den)
         IN  IF start = end /\ discard_short_notes
             THEN notes
             ELSE RescaleFrom(
                      [notes EXCEPT ![i].start = start,
                                    ![i].end = IF start = end THEN end + 1 ELSE end],
                      i + 1, num, den, discard_short_notes)

\* Instrument.change_resolution(num / den, discard_short_notes) on ins
change_resolution(ins, num, den, discard_short_notes) ==
    [ins EXCEPT !.notes = RescaleFrom(@, 1, num, den, discard_short_notes)]

(***************************************************************************)
(* Rescaling as a state machine: a document; _change_resolution(res),      *)
(* instrument by instrument, or change_resolution called on an instrument. *)
(***************************************************************************)
RsMaxNotes == 2
RsMaxTick == 3
Resolutions == {1, 2, 3}

RsNotes ==
    {Note(80, 60, x[1], x[2]) :
        x \in {y \in (0 .. RsMaxTick) \X (0 .. RsMaxTick) : y[1] < y[2]}}

\* the meta-event lists of the documents tried
RsMetas ==
    {[key_signatures |-> <<>>,
      time_signatures |-> <<TimeSignature(4, 4, 0)>>,
      tempo_changes |-> <<>>],
     [key_signatures |-> <<KeySignature(2, 3)>>,
      time_signatures |-> <<TimeSignature(4, 4, 0), TimeSignature(3, 4, 3)>>,
      tempo_changes |-> <<TempoChange(120, 1)>>]}

InitRescale ==
    /\ pc = "document"
    /\ \E s1 \in SeqsUpTo(RsNotes, RsMaxNotes) :
         \E s2 \in SeqsUpTo(RsNotes, RsMaxNotes - Len(s1)) :
            instruments = <<[Instrument(0, FALSE, "") EXCEPT !.notes = s1],
                            [Instrument(40, FALSE, "") EXCEPT !.notes = s2]>>
    /\ resolution \in Resolutions
    /\ \E meta \in RsMetas :
          /\ key_signatures = meta.key_signatures
          /\ time_signatures = meta.time_signatures
          /\ tempo_changes = meta.tempo_changes
    /\ tracks = <<>>
    /\ all_events = <<>>
    /\ idx = 0
    /\ current_instrument = InitialResolver.current_instrument
    /\ last_note_on = InitialResolver.last_note_on
    /\ instrument_map = InitialResolver.instrument_map
    /\ track_name_map = <<>>
    /\ warnings = {}
    /\ loaded = <<>>
    /\ piano_roll = <<>>
    /\ before = <<>>
    /\ arg = <<>>

rescaleFrame == <<tracks, all_events, current_instrument, last_note_on,
                  instrument_map, track_name_map, metaVars, warnings, loaded,
                  piano_roll>>

\* Mutant: no early return, and every note treated as collapsed.
ChangeResolutionSame_Lengthens ==
    /\ pc = "document"
    /\ arg' = [res |-> resolution, from |-> resolution]
    /\ before' = instruments
    /\ instruments' =
           [i \in DOMAIN instruments |->
               [instruments[i] EXCEPT
                   !.notes = [k \in DOMAIN @ |-> [@[k] EXCEPT !.end = @ + 1]]]]
    /\ pc' = "rescaled"
    /\ UNCHANGED <<resolution, idx, rescaleFrame>>

\* _change_resolution(res) with res the resolution the document has
ChangeResolutionSame ==
    /\ pc = "document"
    /\ arg' = [res |-> resolution, from |-> resolution]
    /\ before' = instruments
    /\ pc' = "rescaled"
    /\ UNCHANGED <<instruments, resolution, idx, rescaleFrame>>

\* _change_resolution(res): scale = res / self.resolution
ChangeResolutionBegin ==
    /\ pc = "document"
    /\ \E res \in Resolutions :
          /\ res # resolution
          /\ arg' = [res |-> res, from |-> resolution]
    /\ before' = instruments
    /\ idx' = 1
    /\ pc' = "rescaling"
    /\ UNCHANGED <<instruments, resolution, rescaleFrame>>

\* _change_resolution: ins.change_resolution(scale) for the next instrument
RescaleInstrument ==
    /\ pc = "rescaling"
    /\ idx <= Len(instruments)
    /\ instruments' = [instruments EXCEPT
                          ![idx] = change_resolution(@, arg.res, arg.from, FALSE)]
    /\ idx' = idx + 1
    /\ UNCHANGED <<pc, resolution, before, arg, rescaleFrame>>

\* Mutant: the ticks of the time signatures rescaled with the notes.
ChangeResolutionEnd_RescalesMeta ==
    /\ pc = "rescaling"
    /\ idx > Len(instruments)
    /\ resolution' = arg.res
    /\ time_signatures' =
           [k \in DOMAIN time_signatures |->
               [time_signatures[k] EXCEPT
                   !.time = PyRound(@ * arg.res, arg.from)]]
    /\ pc' = "rescaled"
    /\ UNCHANGED <<instruments, idx, before, arg, tracks, all_events,
                   current_instrument, last_note_on, instrument_map,
                   track_name_map, key_signatures, tempo_changes, warnings,
                   loaded, piano_roll>>

\* _change_resolution: self.resolution = res
ChangeResolutionEnd ==
    /\ pc = "rescaling"
    /\ idx > Len(instruments)
    /\ resolution' = arg.res
    /\ pc' = "rescaled"
    /\ UNCHANGED <<instruments, idx, before, arg, rescaleFrame>>

\* instruments[0].change_resolution(res / resolution, discard_short_notes)
InstrumentChangeResolution ==
    /\ pc = "document"
    /\ \E res \in Resolutions, discard_short_notes \in BOOLEAN :
          /\ arg' = [res |-> res, from |-> resolution,
                     discard_short_notes |-> discard_short_notes]
          /\ instruments' =
                 [instruments EXCEPT
                    ![1] = change_resolution(@, res, resolution, discard_short_notes)]
    /\ before' = instruments
    /\ pc' = "instrument rescaled"
    /\ UNCHANGED <<resolution, idx, rescaleFrame>>

NextRescale ==
    \/ ChangeResolutionSame
    \/ ChangeResolutionBegin
    \/ RescaleInstrument
    \/ ChangeResolutionEnd
    \/ InstrumentChangeResolution

SpecRescale == InitRescale /\ [][NextRescale]_vars

(***************************************************************************)
(* Properties of rescaling.                                                *)
(***************************************************************************)
\* new is the integer nearest to old * num / den, the even one on a tie
Rounded(old, new, num, den) ==
    LET d == 2 * (new * den - old * num)
    IN  /\ -den <= d
        /\ d <= den
        /\ (d = den \/ d = -den) => new % 2 = 0

\* the note n rescaled by num / den with end = start + 1 on a collapse
RescaledNote(old, n, num, den) ==
    /\ n.pitch = old.pitch
    /\ n.velocity = old.velocity
    /\ Rounded(old.start, n.start, num, den)
    /\ \E e \in 0 .. (old.end * num + 1) :
          /\ Rounded(old.end, e, num, den)
          /\ n.end = IF e = n.start THEN e + 1 ELSE e

\* the rescaled start and end of the note coincide
Collapses(old, num, den) ==
    \E t \in 0 .. (old.end * num + 1) :
        Rounded(old.start, t, num, den) /\ Rounded(old.end, t, num, den)

\* what the collapse policy leaves of the notes from the i-th on
RECURSIVE PolicyFrom(_, _, _, _, _)
PolicyFrom(notes, i, num, den, discard_short_notes) ==
    IF i > Len(notes) THEN <<>>
    ELSE LET start == PyRound(notes[i].start * num, den)
             end == PyRound(notes[i].end * num, den)
             rest == PolicyFrom(notes, i + 1, num, den, discard_short_notes)
         IN  IF start = end /\ discard_short_notes THEN rest
             ELSE <<[notes[i] EXCEPT !.start = start,
                                     !.end = IF start = end THEN end + 1 ELSE end]>>
                  \o rest

\* C9: after Instrument.change_resolution a note whose rescaled start equals
\* its rescaled end is dropped (discard_short_notes) or gets end = start + 1,
\* and every note left has start < end and carries its rescaled ticks.
C9_CollapsePolicy ==
    pc = "instrument rescaled" =>
        /\ instruments[1].notes =
               PolicyFrom(before[1].notes, 1, arg.res, arg.from,
                          arg.discard_short_notes)
        /\ \A k \in DOMAIN instruments[1].notes :
               instruments[1].notes[k].start < instruments[1].notes[k].end

\* C10: after _change_resolution from r to R every note of every instrument
\* has start and end rounded from old * R / r by the one rule (end = start + 1
\* on a collapse), nothing else of the instruments changes, and the
\* resolution of the document is R.
C10_RescaleAllOrNothing ==
    pc = "rescaled" =>
        /\ resolution = arg.res
        /\ Len(instruments) = Len(before)
        /\ \A i \in DOMAIN instruments :
              /\ [instruments[i] EXCEPT !.notes = <<>>]
                     = [before[i] EXCEPT !.notes = <<>>]
              /\ Len(instruments[i].notes) = Len(before[i].notes)
              /\ \A k \in DOMAIN instruments[i].notes :
                    RescaledNote(before[i].notes[k], instruments[i].notes[k],
                                 arg.res, arg.from)

\* a rescale to another resolution of two instruments with notes, one note
\* rounded on a tie and one collapsed
C10_Witness ==
    /\ pc = "rescaled"
    /\ arg.res # arg.from
    /\ \A i \in DOMAIN before : before[i].notes # <<>>
    /\ \E k \in DOMAIN before[1].notes :
          /\ 2 * ((before[1].notes[k].end * arg.res) % arg.from) = arg.from
          /\ instruments[1].notes[k] # before[1].notes[k]
    /\ \E k \in DOMAIN before[2].notes :
          Collapses(before[2].notes[k], arg.res, arg.from)

\* C11: _change_resolution(res) with res the resolution the document has
\* changes nothing: the resolution, the instruments with their notes in
\* their order, and the three meta-event lists are what they were.
C11_SameResolutionNoOp ==
    [][(pc = "document" /\ pc' = "rescaled") =>
           /\ arg'.res = resolution
           /\ resolution' = resolution
           /\ instruments' = instruments
           /\ metaVars' = metaVars]_vars

\* a document with notes in both instruments and all three kinds of meta
\* events, rescaled to the resolution it has
C11_Witness ==
    /\ pc = "rescaled"
    /\ arg.res = arg.from
    /\ \A i \in DOMAIN instruments : instruments[i].notes # <<>>
    /\ key_signatures # <<>>
    /\ tempo_changes # <<>>
    /\ Len(time_signatures) > 1

\* C19: no step of _change_resolution to another resolution touches a
\* tempo change, key signature or time signature, and when it is over the
\* resolution is the new one.
C19_RescaleKeepsMeta ==
    [][(pc' \in {"rescaling", "rescaled"} /\ arg'.res # arg'.from) =>
           /\ metaVars' = metaVars
           /\ pc' = "rescaled" => (resolution' = arg'.res /\ resolution = arg'.from)]_vars

\* a rescale to another resolution that moved a note, of a document with
\* meta events of all three kinds at ticks other than 0
C19_Witness ==
    /\ pc = "rescaled"
    /\ arg.res # arg.from
    /\ resolution = arg.res
    /\ \E i \in DOMAIN instruments : \E k \in DOMAIN instruments[i].notes :
          instruments[i].notes[k].start # before[i].notes[k].start
    /\ \E k \in DOMAIN key_signatures : key_signatures[k].time > 0
    /\ \E k \in DOMAIN tempo_changes : tempo_changes[k].time > 0
    /\ \E k \in DOMAIN time_signatures : time_signatures[k].time > 0

(***************************************************************************)
(* The constructors of the value objects.  A Python value that may be an   *)
(* int or a str is a record of its type and its value; ticks, numerators,  *)
(* denominators and tempos are integers here.  A constructor gives the     *)
(* exception it raises, or "" and the object it made.                      *)
(***************************************************************************)
PyInt(n) == [type |-> "int", value |-> n]

PyStr(str) == [type |-> "str", value |-> str]

Raised(error) == [error |-> error]

Made(object) == [error |-> "", object |-> object]

\* Mutant: a key number of 24 passes.
KeySignatureInit_UpTo24(key_number, time) ==
    IF key_number.type # "int" THEN Raised("TypeError")
    ELSE IF ~(key_number.value >= 0 /\ key_number.value <= 24)
    THEN Raised("ValueError")
    ELSE IF ~(time >= 0) THEN Raised("ValueError")
    ELSE Made(KeySignature(key_number.value, time))

\* TimeSignature.__init__
TimeSignatureInit(numerator, denominator, time) ==
    IF ~(numerator > 0) THEN Raised("ValueError")
    ELSE IF ~(denominator > 0) THEN Raised("ValueError")
    ELSE IF ~(time >= 0) THEN Raised("ValueError")
    ELSE Made(TimeSignature(numerator, denominator, time))

\* KeySignature.__init__: the tuple handed to all() is built first, and
\* comparing a str with 0 raises TypeError
KeySignatureInit(key_number, time) ==
    IF key_number.type # "int" THEN Raised("TypeError")
    ELSE IF ~(key_number.value >= 0 /\ key_number.value < 24)
    THEN Raised("ValueError")
    ELSE IF ~(time >= 0) THEN Raised("ValueError")
    ELSE Made(KeySignature(key_number.value, time))

\* TempoChange.__init__
TempoChangeInit(tempo, time) ==
    IF ~(tempo >= 0) THEN Raised("ValueError")
    ELSE IF ~(time >= 0) THEN Raised("ValueError")
    ELSE Made(TempoChange(tempo, time))

(***************************************************************************)
(* _load_track0: the meta events of track 0, as mido gives them: the key   *)
(* of a key_signature message is a str such as "C", the tempo of set_tempo *)
(* is in microseconds per beat.                                            *)
(***************************************************************************)
KeySignatureMsg(key, t) == [type |-> "key_signature", key |-> PyStr(key), time |-> t]

SetTempoMsg(tempo, t) == [type |-> "set_tempo", tempo |-> tempo, time |-> t]

\* mido.tempo2bpm: 60 * 1e6 / tempo, exact on the tempos used here
tempo2bpm(tempo) == 60000000 \div tempo

NOTES_ON_TRACK0 == "Track 0 contains note information; This file may be invalid."

META_OFF_TRACK0 == "Tempo, Key or Time signature change events found on non-zero tracks."

\* the loop of _load_track0 from the i-th message on; acc holds the lists
\* and warnings so far, and the exception once a constructor has raised
RECURSIVE load_track0_from(_, _, _)
load_track0_from(track, i, acc) ==
    IF i > Len(track) THEN acc
    ELSE LET msg == track[i]
         IN  IF msg.type = "key_signature"
             THEN LET made == KeySignatureInit(msg.key, msg.time)
                  IN  IF made.error # "" THEN [acc EXCEPT !.error = made.error]
                      ELSE load_track0_from(track, i + 1,
                               [acc EXCEPT !.key_signatures = Append(@, made.object)])
             ELSE IF msg.type = "time_signature"
             THEN LET made == TimeSignatureInit(msg.numerator, msg.denominator,
                                                msg.time)
                  IN  IF made.error # "" THEN [acc EXCEPT !.error = made.error]
                      ELSE load_track0_from(track, i + 1,
                               [acc EXCEPT !.time_signatures = Append(@, made.object)])
             ELSE IF msg.type = "set_tempo"
             THEN LET made == TempoChangeInit(tempo2bpm(msg.tempo), msg.time)
                  IN  IF made.error # "" THEN [acc EXCEPT !.error = made.error]
                      ELSE load_track0_from(track, i + 1,
                               [acc EXCEPT !.tempo_changes = Append(@, made.object)])
             ELSE IF msg.type \in {"note_on", "note_off"}
             THEN load_track0_from(track, i + 1,
                      [acc EXCEPT !.warnings = @ \cup {NOTES_ON_TRACK0}])
             ELSE load_track0_from(track, i + 1, acc)

\* _load_track0 on the normalized tracks
load_track0(trks) ==
    load_track0_from(trks[1], 1,
        [error |-> "", key_signatures |-> <<>>, time_signatures |-> <<>>,
         tempo_changes |-> <<>>, warnings |-> {}])

\* the warning of __init__ about meta events on the tracks after track 0
MetaOffTrack0(trks) ==
    IF \E i \in 2 .. Len(trks) : \E k \in DOMAIN trks[i] :
           trks[i][k].type \in {"set_tempo", "key_signature", "time_signature"}
    THEN {META_OFF_TRACK0}
    ELSE {}

(***************************************************************************)
(* MidiLoader.__init__ as a whole: the checks that raise ValueError, the   *)
(* normalization, _load_instruments and the optional _change_resolution.   *)
(* A missing argument (resolution=None) is the empty tuple, a given one    *)
(* the tuple of its value.                                                 *)
(***************************************************************************)
MAX_TICK == 10000000

\* Mutant: the largest tick compared with MAX_TICK without the + 1.
IngestError_TickOffByOne(type, trks, resolution_arg) ==
    IF type # 1 THEN "unsupported type"
    ELSE IF Len(trks) <= 1 THEN "too few tracks"
    ELSE IF resolution_arg # <<>> /\ resolution_arg[1] <= 0
    THEN "invalid resolution"
    ELSE IF load_track0(ToAbsolute(trks)).error # ""
    THEN load_track0(ToAbsolute(trks)).error
    ELSE IF \E i \in DOMAIN trks : trks[i] = <<>> THEN "empty track"
    ELSE IF \E i \in DOMAIN trks : \E k \in DOMAIN trks[i] :
                ToAbsolute(trks)[i][k].time > MAX_TICK
    THEN "largest tick"
    ELSE ""

\* The exception __init__ raises on a file of this type with these tracks
\* (delta times), or "" when it raises none: the ValueError of a check, the
\* exception of a constructor in _load_track0, the ValueError of max() on a
\* track without events.
IngestError(type, trks, resolution_arg) ==
    IF type # 1 THEN "unsupported type"
    ELSE IF Len(trks) <= 1 THEN "too few tracks"
    ELSE IF resolution_arg # <<>> /\ resolution_arg[1] <= 0
    THEN "invalid resolution"
    ELSE IF load_track0(ToAbsolute(trks)).error # ""
    THEN load_track0(ToAbsolute(trks)).error
    ELSE IF \E i \in DOMAIN trks : trks[i] = <<>> THEN "empty track"
    ELSE IF \E i \in DOMAIN trks : \E k \in DOMAIN trks[i] :
                ToAbsolute(trks)[i][k].time + 1 > MAX_TICK
    THEN "largest tick"
    ELSE ""

IngestErrors == {"unsupported type", "too few tracks", "invalid resolution",
                 "TypeError", "ValueError", "empty track", "largest tick"}

IngestMaxTracks == 3
IngestMaxEvents == 2
IngestDeltas == {0, 1, 9999999}
IngestTypes == {0, 1, 2}
IngestResolutions == {<<>>, <<0>>, <<96>>}

IngestEvents ==
    {NoteOnMsg(0, 60, 80, d) : d \in IngestDeltas}
    \cup {NoteOffMsg(0, 60, 0, d) : d \in IngestDeltas}

\* the tracks of the files tried: n tracks of no more than `events` events in
\* all, each ended by end_of_track or, when it has no event, also without
RECURSIVE IngestTracks(_, _)
IngestTracks(n, events) ==
    IF n = 0 THEN {<<>>}
    ELSE UNION
           {{<<track>> \o rest :
                track \in {RawTrack(s)} \cup (IF s = <<>> THEN {<<>>} ELSE {}),
                rest \in IngestTracks(n - 1, events - Len(s))} :
            s \in SeqsUpTo(IngestEvents, events)}

InitIngest ==
    /\ pc = "file"
    /\ \E n \in 0 .. IngestMaxTracks :
          \E trks \in IngestTracks(n, IngestMaxEvents) :
             /\ tracks = trks
             /\ before = trks
    /\ \E type \in IngestTypes, resolution_arg \in IngestResolutions :
          arg = [type |-> type, resolution |-> resolution_arg]
    /\ all_events = <<>>
    /\ idx = 0
    /\ current_instrument = InitialResolver.current_instrument
    /\ last_note_on = InitialResolver.last_note_on
    /\ instrument_map = InitialResolver.instrument_map
    /\ track_name_map = <<>>
    /\ instruments = <<>>
    /\ resolution = 0
    /\ key_signatures = <<>>
    /\ time_signatures = <<>>
    /\ tempo_changes = <<>>
    /\ warnings = {}
    /\ loaded = <<>>
    /\ piano_roll = <<>>

ingestFrame == <<resolverVars, loaded, piano_roll, before, arg>>

\* MidiLoader(midi_file, resolution) raises: no object is made; the
\* warnings of _load_track0 were given if it was reached
IngestFails ==
    /\ pc = "file"
    /\ IngestError(arg.type, tracks, arg.resolution) # ""
    /\ pc' = IngestError(arg.type, tracks, arg.resolution)
    /\ warnings' =
          IF pc' \in {"unsupported type", "too few tracks", "invalid resolution"}
          THEN warnings
          ELSE warnings \cup load_track0(ToAbsolute(tracks)).warnings
    /\ UNCHANGED <<tracks, instruments, resolution, metaVars, ingestFrame>>

\* MidiLoader(midi_file, resolution) returns the loaded document
Ingest ==
    /\ pc = "file"
    /\ IngestError(arg.type, tracks, arg.resolution) = ""
    /\ tracks' = ToAbsolute(tracks)
    /\ LET track0 == load_track0(ToAbsolute(tracks))
       IN  /\ key_signatures' = track0.key_signatures
           /\ time_signatures' = track0.time_signatures
           /\ tempo_changes' = track0.tempo_changes
           /\ warnings' = warnings \cup track0.warnings
                              \cup MetaOffTrack0(ToAbsolute(tracks))
    /\ LET loaded_instruments == LoadInstruments(ToAbsolute(tracks))
       IN  IF arg.resolution # <<>> /\ arg.resolution[1] # TicksPerBeat
           THEN /\ instruments' =
                       [i \in DOMAIN loaded_instruments |->
                           change_resolution(loaded_instruments[i],
                                             arg.resolution[1], TicksPerBeat,
                                             FALSE)]
                /\ resolution' = arg.resolution[1]
           ELSE /\ instruments' = loaded_instruments
                /\ resolution' = TicksPerBeat
    /\ pc' = "document"
    /\ UNCHANGED ingestFrame

NextIngest == IngestFails \/ Ingest

SpecIngest == InitIngest /\ [][NextIngest]_vars

\* the absolute ticks of the events of the file
FileTicks ==
    {ToAbsolute(before)[i][k].time :
        <<i, k>> \in {x \in (1 .. IngestMaxTracks) \X (1 .. IngestMaxEvents + 1) :
                         x[1] \in DOMAIN before /\ x[2] \in DOMAIN before[x[1]]}}

\* C12: the load fails, and makes no document, when the file has at most
\* one track, is not of type 1, or has an event at an absolute tick of 10^7
\* or more; on a type 1 file with two or more non-empty tracks and every tick
\* below 10^7 none of these checks raises.
C12_FatalIngestionChecks ==
    pc # "file" =>
        /\ (\/ arg.type # 1
            \/ Len(before) <= 1
            \/ \E tick \in FileTicks : tick >= 10000000)
               => /\ pc \in IngestErrors
                  /\ instruments = <<>>
                  /\ resolution = 0
        /\ (/\ arg.type = 1
            /\ Len(before) >= 2
            /\ \A i \in DOMAIN before : before[i] # <<>>
            /\ \A tick \in FileTicks : tick < 10000000)
               => pc \notin {"unsupported type", "too few tracks",
                             "empty track", "largest tick"}

\* a type 1 file of two non-empty tracks refused for an event at tick 10^7
C12_Witness ==
    /\ pc = "largest tick"
    /\ arg.type = 1
    /\ Len(before) >= 2
    /\ \A i \in DOMAIN before : before[i] # <<>>
    /\ 10000000 \in FileTicks
    /\ \A tick \in FileTicks : tick <= 10000000

(***************************************************************************)
(* The loader on files whose tracks carry track_name events.               *)
(***************************************************************************)
TrackNameMsg(name, t) ==
    [type |-> "track_name", name |-> name, channel |-> 0, note |-> 0,
     velocity |-> 0, program |-> 0, time |-> t]

NamesMaxEvents == 4
TrackNameSet == {"piano", "bass"}

NamedEvents ==
    {TrackNameMsg(name, 0) : name \in TrackNameSet}
    \cup {NoteOnMsg(0, 60, 80, 0), NoteOffMsg(0, 60, 0, 1)}

\* track 0 with or without a name, two tracks of no more than
\* NamesMaxEvents events in all
InitNames ==
    /\ pc = "read"
    /\ \E s0 \in {<<>>, <<TrackNameMsg("meta", 0)>>} :
         \E s1 \in SeqsUpTo(NamedEvents, NamesMaxEvents) :
            \E s2 \in SeqsUpTo(NamedEvents, NamesMaxEvents - Len(s1)) :
               tracks = <<RawTrack(s0), RawTrack(s1), RawTrack(s2)>>
    /\ all_events = <<>>
    /\ idx = 0
    /\ current_instrument = InitialResolver.current_instrument
    /\ last_note_on = InitialResolver.last_note_on
    /\ instrument_map = InitialResolver.instrument_map
    /\ track_name_map = <<>>
    /\ instruments = <<>>
    /\ resolution = 0
    /\ key_signatures = <<>>
    /\ time_signatures = <<>>
    /\ tempo_changes = <<>>
    /\ warnings = {}
    /\ loaded = <<>>
    /\ piano_roll = <<>>
    /\ before = <<>>
    /\ arg = <<>>

SpecNames == InitNames /\ [][Next]_vars

\* the name of the last track_name event of the track, "" when it has none
LastNameOn(track) ==
    LET named == {k \in DOMAIN track : track[k].type = "track_name"}
    IN  IF named = {} THEN ""
        ELSE track[CHOOSE k \in named : \A j \in named : j <= k].name

\* C13: every Instrument of the loaded document is named by the last
\* track_name event of its own track, the track of its key, and has the
\* empty name when that track has no track_name event.
C13_NameOfOwnTrack ==
    pc = "done" =>
        \A m \in DOMAIN instrument_map :
            instruments[m].name = LastNameOn(tracks[instrument_map[m].key[3] + 1])

(***************************************************************************)
(* More properties of the piano-roll codec.                                *)
(***************************************************************************)
\* roll[t, pitch]
Cell(roll, t, pitch) == roll.rows[t + 1][pitch + 1]

\* the cells start .. end - 1 of the column are a maximal non-zero run
MaximalRun(roll, pitch, start, end) ==
    /\ 0 <= start
    /\ start < end
    /\ end <= roll.shape[1]
    /\ \A t \in start .. end - 1 : Cell(roll, t, pitch) # 0
    /\ start = 0 \/ Cell(roll, start - 1, pitch) = 0
    /\ end = roll.shape[1] \/ Cell(roll, end, pitch) = 0

\* the value changes somewhere inside the run
ChangesInside(roll, pitch, start, end) ==
    \E t \in start .. end - 2 : Cell(roll, t, pitch) # Cell(roll, t + 1, pitch)

\* C14: every Note get_instrument_from_piano_roll makes has the velocity
\* the matrix holds at the note's start, the first tick of its run.
C14_VelocityAtRunStart ==
    pc = "decoded" =>
        \A k \in DOMAIN loaded[1].notes :
            loaded[1].notes[k].velocity =
                Cell(piano_roll, loaded[1].notes[k].start, loaded[1].notes[k].pitch)

\* C15: the Notes get_instrument_from_piano_roll makes are, column by
\* column, the maximal runs of non-zero cells, one Note for each: start is
\* the first tick of the run, end the first zero tick after it or the
\* number of rows.
C15_OneNotePerMaximalRun ==
    pc = "decoded" =>
        /\ \A k \in DOMAIN loaded[1].notes :
              MaximalRun(piano_roll, loaded[1].notes[k].pitch,
                         loaded[1].notes[k].start, loaded[1].notes[k].end)
        /\ \A pitch \in 0 .. NUM_PITCHES - 1 :
              \A start, end \in 0 .. piano_roll.shape[1] :
                 MaximalRun(piano_roll, pitch, start, end) =>
                     Cardinality({k \in DOMAIN loaded[1].notes :
                                    /\ loaded[1].notes[k].pitch = pitch
                                    /\ loaded[1].notes[k].start = start
                                    /\ loaded[1].notes[k].end = end}) = 1

\* a roll decoded to one note for a run that starts after the first row
\* and whose value changes inside
C15_Witness ==
    /\ pc = "decoded"
    /\ Len(loaded[1].notes) = 1
    /\ loaded[1].notes[1].start > 0
    /\ ChangesInside(piano_roll, loaded[1].notes[1].pitch,
                     loaded[1].notes[1].start, loaded[1].notes[1].end)

(***************************************************************************)
(* get_piano_roll with and without a bound.                                *)
(***************************************************************************)
EncMaxNotes == 2
EncMaxTick == 3
EncBounds == {<<>>} \cup {<<b>> : b \in 0 .. EncMaxTick + 1}

EncNotes ==
    {Note(kind[2], kind[1], x[1], x[2]) :
        kind \in RollKinds,
        x \in {y \in (0 .. EncMaxTick) \X (0 .. EncMaxTick) : y[1] < y[2]}}

InitEncode ==
    /\ pc = "instrument"
    /\ \E notes \in SeqsUpTo(EncNotes, EncMaxNotes) :
          instruments = <<[Instrument(0, FALSE, "") EXCEPT !.notes = notes]>>
    /\ arg \in EncBounds
    /\ resolution = TicksPerBeat
    /\ key_signatures = <<>>
    /\ time_signatures = <<>>
    /\ tempo_changes = <<>>
    /\ tracks = <<>>
    /\ all_events = <<>>
    /\ idx = 0
    /\ current_instrument = InitialResolver.current_instrument
    /\ last_note_on = InitialResolver.last_note_on
    /\ instrument_map = InitialResolver.instrument_map
    /\ track_name_map = <<>>
    /\ warnings = {}
    /\ loaded = <<>>
    /\ piano_roll = <<>>
    /\ before = <<>>

SpecEncode == InitEncode /\ [][GetPianoRoll]_vars

\* the rows the claim gives the roll: the bound, else the largest note end
Duration(notes, bound) ==
    IF bound # <<>> THEN bound[1]
    ELSE IF notes = <<>> THEN 0
    ELSE CHOOSE e \in {notes[i].end : i \in DOMAIN notes} :
             \A i \in DOMAIN notes : notes[i].end <= e

\* the velocities of the notes of this pitch that sound at tick t before
\* the tick duration, summed
RECURSIVE Sounding(_, _, _, _)
Sounding(notes, pitch, t, duration) ==
    IF notes = <<>> THEN 0
    ELSE (IF /\ Head(notes).pitch = pitch
             /\ Head(notes).start <= t
             /\ t < Head(notes).end
             /\ t < duration
          THEN Head(notes).velocity ELSE 0)
         + Sounding(Tail(notes), pitch, t, duration)

\* C16: get_piano_roll gives, for every note list, the empty one too, and
\* every bound, a matrix of duration rows and 128 columns whose cell [t, p]
\* is the sum of the velocities of the notes of pitch p with
\* start <= t < min(end, duration).
C16_EncodeShapeAndCells ==
    pc = "roll" =>
        LET notes == instruments[1].notes
            duration == Duration(notes, arg)
        IN  /\ piano_roll.shape = <<duration, NUM_PITCHES>>
            /\ \A t \in 0 .. duration - 1 : \A pitch \in 0 .. NUM_PITCHES - 1 :
                  Cell(piano_roll, t, pitch) = Sounding(notes, pitch, t, duration)

\* the same for the note lists that are not empty
NonEmptyEncode ==
    (pc = "roll" /\ instruments[1].notes # <<>>) =>
        LET notes == instruments[1].notes
            duration == Duration(notes, arg)
        IN  /\ piano_roll.shape = <<duration, NUM_PITCHES>>
            /\ \A t \in 0 .. duration - 1 : \A pitch \in 0 .. NUM_PITCHES - 1 :
                  Cell(piano_roll, t, pitch) = Sounding(notes, pitch, t, duration)

(***************************************************************************)
(* The layout of a written instrument track.                               *)
(***************************************************************************)
\* the sum of the delta times of the first k messages of the track
RECURSIVE TickAt(_, _)
TickAt(track, k) == IF k = 0 THEN 0 ELSE track[k].time + TickAt(track, k - 1)

\* The 2 * Len(notes) note messages in the order write makes them: message
\* 2i - 1 opens the i-th note, message 2i closes it.
MadeTick(notes, m) ==
    IF m % 2 = 1 THEN notes[(m + 1) \div 2].start ELSE notes[m \div 2].end

\* how many of the made messages a stable sort by tick puts before the m-th
Ahead(notes, m) ==
    Cardinality({x \in 1 .. 2 * Len(notes) :
                    \/ MadeTick(notes, x) < MadeTick(notes, m)
                    \/ MadeTick(notes, x) = MadeTick(notes, m) /\ x < m})

TkMaxNotes == 3
TkMaxTick == 2
TkPitches == {60, 61}

TkNotes ==
    {Note(80, pitch, x[1], x[2]) :
        pitch \in TkPitches,
        x \in {y \in (0 .. TkMaxTick) \X (0 .. TkMaxTick) : y[1] < y[2]}}

\* a document of one instrument with notes in any order, alone or followed
\* by a second instrument
InitTrack ==
    /\ pc = "document"
    /\ \E notes \in SeqsUpTo(TkNotes, TkMaxNotes), is_drum \in BOOLEAN :
         \E others \in {<<>>, <<NthInstrument(2, FALSE)>>} :
            instruments =
                <<[Instrument(40, is_drum, "") EXCEPT !.notes = notes]>> \o others
    /\ resolution = TicksPerBeat
    /\ key_signatures \in {<<>>, <<KeySignature(0, 0)>>}
    /\ time_signatures = <<TimeSignature(4, 4, 0)>>
    /\ tempo_changes = <<>>
    /\ tracks = <<>>
    /\ all_events = <<>>
    /\ idx = 0
    /\ current_instrument = InitialResolver.current_instrument
    /\ last_note_on = InitialResolver.last_note_on
    /\ instrument_map = InitialResolver.instrument_map
    /\ track_name_map = <<>>
    /\ warnings = {}
    /\ loaded = <<>>
    /\ piano_roll = <<>>
    /\ before = <<>>
    /\ arg = <<>>

SpecTrack == InitTrack /\ [][NextWrite]_vars

\* C17: the track of an emitted instrument is a program_change with the
\* instrument's program at delta 0, then one note_on and one note_off for
\* each note in the order of a stable sort by tick, then the end of track;
\* no delta is negative and the deltas up to a note_on or note_off add up to
\* the start or end of its note.
C17_InstrumentTrackLayout ==
    pc = "written" =>
        \A j \in EmittedInstruments :
            LET track == tracks[j + 1]
                notes == instruments[j].notes
            IN  /\ Len(track) = 2 * Len(notes) + 2
                /\ track[1].type = "program_change"
                /\ track[1].program = instruments[j].program
                /\ track[1].time = 0
                /\ track[Len(track)].type = "end_of_track"
                /\ \A k \in DOMAIN track : track[k].time >= 0
                /\ \A m \in 1 .. 2 * Len(notes) :
                      LET k == Ahead(notes, m) + 2
                          n == notes[(m + 1) \div 2]
                      IN  /\ track[k].type = IF m % 2 = 1 THEN "note_on"
                                                           ELSE "note_off"
                          /\ track[k].note = n.pitch
                          /\ track[k].channel = track[1].channel
                          /\ m % 2 = 1 => track[k].velocity = n.velocity
                          /\ TickAt(track, k) = MadeTick(notes, m)

\* a written instrument of two notes, the first starting at the tick the
\* second ends
C17_Witness ==
    /\ pc = "written"
    /\ \E j \in EmittedInstruments :
          /\ Len(instruments[j].notes) = 2
          /\ instruments[j].notes[1].start = instruments[j].notes[2].end
          /\ instruments[j].notes[1].pitch = instruments[j].notes[2].pitch
          /\ tracks[j + 1][3].type = "note_on"
          /\ tracks[j + 1][4].type = "note_off"

\* the ticks of the messages of this type in the track
TicksOfType(track, type) ==
    {TickAt(track, k) : k \in {x \in DOMAIN track : track[x].type = type}}

CountOfType(track, type) ==
    Cardinality({k \in DOMAIN track : track[k].type = type})

\* C18: write completes on every document, one with a tempo change or key
\* signature too, and track 0 holds one event for each tempo change, key
\* signature and time signature, in the order of their ticks, each delta
\* the distance to the event before.
C18_MetaTrackComplete ==
    pc # "document" =>
        /\ pc = "written"
        /\ LET track == tracks[1]
           IN  /\ Len(track) = Len(key_signatures) + Len(time_signatures)
                                   + Len(tempo_changes) + 1
               /\ \A k \in DOMAIN track : track[k].time >= 0
               /\ CountOfType(track, "key_signature") = Len(key_signatures)
               /\ CountOfType(track, "time_signature") = Len(time_signatures)
               /\ CountOfType(track, "set_tempo") = Len(tempo_changes)
               /\ TicksOfType(track, "key_signature")
                      = {key_signatures[i].time : i \in DOMAIN key_signatures}
               /\ TicksOfType(track, "time_signature")
                      = {time_signatures[i].time : i \in DOMAIN time_signatures}
               /\ TicksOfType(track, "set_tempo")
                      = {tempo_changes[i].time : i \in DOMAIN tempo_changes}

\* the same for the documents without tempo changes and key signatures
TimeSignaturesOnly ==
    (pc # "document" /\ key_signatures = <<>> /\ tempo_changes = <<>>) =>
        C18_MetaTrackComplete

(***************************************************************************)
(* Notes left open at the end of the events.                               *)
(***************************************************************************)
\* the i-th event opens a note and no later event closes its key
LeftOpen(i) ==
    /\ IsNoteOn(EventAt(i))
    /\ \A j \in i + 1 .. Len(all_events) :
          ~(IsNoteOff(EventAt(j)) /\ KeyAt(j) = KeyAt(i))

\* some note_on of this channel and track has a closing event behind it
HasClosedNote(channel, track) ==
    \E i, j \in DOMAIN all_events :
        /\ i < j
        /\ IsNoteOn(EventAt(i))
        /\ IsNoteOff(EventAt(j))
        /\ KeyAt(j) = KeyAt(i)
        /\ EventAt(i).channel = channel
        /\ TrackAt(i) = track

\* C20: the load ends without an error; a note_on that no later note_off
\* or zero-velocity note_on of its (track, channel, pitch) follows gives no
\* Note, and an Instrument exists only where a note_on was followed by its
\* closing event.
C20_OpenNotesDiscarded ==
    /\ pc \in {"read", "normalized", "resolve", "done"}
    /\ pc = "done" =>
          /\ \A i \in DOMAIN all_events :
                LeftOpen(i) =>
                    ~NoteStartsAt(TrackAt(i), EventAt(i).channel,
                                  EventAt(i).note, EventAt(i).time)
          /\ \A m \in DOMAIN instrument_map :
                HasClosedNote(instrument_map[m].key[2], instrument_map[m].key[3])
          /\ instruments = InstrumentList(instrument_map)

\* a load that ended with a note still in the open-note table, beside an
\* Instrument holding a Note of a closed pair
C20_Witness ==
    /\ pc = "done"
    /\ \E i \in DOMAIN all_events :
          /\ LeftOpen(i)
          /\ KeyAt(i) \in DOMAIN last_note_on
          /\ \E m \in DOMAIN instruments : instruments[m].notes # <<>>

(***************************************************************************)
(* The loader on one track of note_on, note_off and program_change events  *)
(* of a single (channel, pitch), with two velocities.                      *)
(***************************************************************************)
StackMaxEvents == 4
StackVelocities == {80, 100}

StackEvents ==
    {NoteOnMsg(0, 60, vel, d) : vel \in StackVelocities, d \in Deltas}
    \cup {NoteOffMsg(0, 60, 0, d) : d \in Deltas}
    \cup {ProgramChange(0, 40, d) : d \in Deltas}

InitStack ==
    /\ pc = "read"
    /\ \E s1 \in SeqsUpTo(StackEvents, StackMaxEvents) :
          tracks = <<RawTrack(<<>>), RawTrack(s1), RawTrack(<<>>)>>
    /\ all_events = <<>>
    /\ idx = 0
    /\ current_instrument = InitialResolver.current_instrument
    /\ last_note_on = InitialResolver.last_note_on
    /\ instrument_map = InitialResolver.instrument_map
    /\ track_name_map = <<>>
    /\ instruments = <<>>
    /\ resolution = 0
    /\ key_signatures = <<>>
    /\ time_signatures = <<>>
    /\ tempo_changes = <<>>
    /\ warnings = {}
    /\ loaded = <<>>
    /\ piano_roll = <<>>
    /\ before = <<>>
    /\ arg = <<>>

SpecStack == InitStack /\ [][Next]_vars

\* a note_on of the key is before position j and nothing closed the key since
OpenBefore(j) ==
    \E i \in 1 .. j - 1 :
        /\ IsNoteOn(EventAt(i))
        /\ KeyAt(i) = KeyAt(j)
        /\ \A x \in i + 1 .. j - 1 : ~(IsNoteOff(EventAt(x)) /\ KeyAt(x) = KeyAt(j))

\* j is a note_on on a key that is open, k the next event of the key, a
\* note_off at a later tick
Restruck(j, k) ==
    /\ j < k
    /\ IsNoteOn(EventAt(j))
    /\ OpenBefore(j)
    /\ IsNoteOff(EventAt(k))
    /\ KeyAt(k) = KeyAt(j)
    /\ EventAt(k).time > EventAt(j).time
    /\ \A x \in j + 1 .. k - 1 :
          ~(KeyAt(x) = KeyAt(j) /\ (IsNoteOn(EventAt(x)) \/ IsNoteOff(EventAt(x))))

\* the notes of this track, channel and pitch that end at this tick, each
\* as <<instrument, position>>
NotesEndingAt(track, channel, pitch, tick) ==
    {mq \in {<<m, q>> : m \in DOMAIN instrument_map, q \in 1 .. StackMaxEvents + 1} :
        /\ mq[2] \in DOMAIN instrument_map[mq[1]].ins.notes
        /\ instrument_map[mq[1]].key[2] = channel
        /\ instrument_map[mq[1]].key[3] = track
        /\ instrument_map[mq[1]].ins.notes[mq[2]].pitch = pitch
        /\ instrument_map[mq[1]].ins.notes[mq[2]].end = tick}

\* C23: a note_on for a key that is open replaces the entry: the next
\* note_off of the key at a later tick makes exactly one Note, with the
\* velocity and tick of the second note_on and the program the register held
\* at it, and leaves the key closed, so that a further note_off is spurious.
C23_NoStacking ==
    pc \in {"resolve", "done"} =>
        \A j, k \in Processed :
            Restruck(j, k) =>
                LET ends == NotesEndingAt(TrackAt(k), EventAt(k).channel,
                                          EventAt(k).note, EventAt(k).time)
                IN  /\ Cardinality(ends) = 1
                    /\ \A mq \in ends :
                          /\ instrument_map[mq[1]].ins.notes[mq[2]] =
                                 Note(EventAt(j).velocity, EventAt(j).note,
                                      EventAt(j).time, EventAt(k).time)
                          /\ instrument_map[mq[1]].key[1] =
                                 ProgramBefore(j, EventAt(j).channel)
                    /\ (\A x \in Processed :
                            x > k => ~(IsNoteOn(EventAt(x)) /\ KeyAt(x) = KeyAt(k)))
                          => KeyAt(k) \notin DOMAIN last_note_on

\* note_on, a program_change, a louder note_on at a later tick, note_off and
\* a second note_off: one Note, of the second note_on
C23_Witness ==
    /\ pc = "done"
    /\ \E i, j, k, l \in Processed :
          /\ i < j /\ Restruck(j, k) /\ k < l
          /\ IsNoteOn(EventAt(i))
          /\ EventAt(i).velocity # EventAt(j).velocity
          /\ EventAt(i).time < EventAt(j).time
          /\ IsNoteOff(EventAt(l))
    /\ Len(instruments) = 1
    /\ Len(instruments[1].notes) = 1

(***************************************************************************)
(* The constructors called with arguments around the limits.               *)
(***************************************************************************)
MaxKeyTried == 24
MaxTickTried == 1
MaxCountTried == 2
TemposTried == {-1, 0, 120}

ConstructorCalls ==
    {[class |-> "TimeSignature", numerator |-> n, denominator |-> d, time |-> t] :
        n \in -1 .. MaxCountTried, d \in -1 .. MaxCountTried,
        t \in -1 .. MaxTickTried}
    \cup {[class |-> "KeySignature", key_number |-> k, time |-> t] :
             k \in {PyInt(n) : n \in -1 .. MaxKeyTried} \cup {PyStr("C")},
             t \in -1 .. MaxTickTried}
    \cup {[class |-> "TempoChange", tempo |-> b, time |-> t] :
             b \in TemposTried, t \in -1 .. MaxTickTried}

InitContainers ==
    /\ pc = "call"
    /\ arg \in ConstructorCalls
    /\ loaded = <<>>
    /\ tracks = <<>>
    /\ all_events = <<>>
    /\ idx = 0
    /\ current_instrument = InitialResolver.current_instrument
    /\ last_note_on = InitialResolver.last_note_on
    /\ instrument_map = InitialResolver.instrument_map
    /\ track_name_map = <<>>
    /\ instruments = <<>>
    /\ resolution = 0
    /\ key_signatures = <<>>
    /\ time_signatures = <<>>
    /\ tempo_changes = <<>>
    /\ warnings = {}
    /\ piano_roll = <<>>
    /\ before = <<>>

\* what the call of the constructor gives
Constructed(call) ==
    IF call.class = "TimeSignature"
    THEN TimeSignatureInit(call.numerator, call.denominator, call.time)
    ELSE IF call.class = "KeySignature"
    THEN KeySignatureInit(call.key_number, call.time)
    ELSE TempoChangeInit(call.tempo, call.time)

containerFrame == <<tracks, resolverVars, instruments, resolution, metaVars,
                    warnings, piano_roll, before, arg>>

\* the constructor raises
ConstructFails ==
    /\ pc = "call"
    /\ Constructed(arg).error # ""
    /\ pc' = Constructed(arg).error
    /\ UNCHANGED <<loaded, containerFrame>>

\* the constructor returns the object
Construct ==
    /\ pc = "call"
    /\ Constructed(arg).error = ""
    /\ loaded' = <<Constructed(arg).object>>
    /\ pc' = "constructed"
    /\ UNCHANGED containerFrame

NextContainers == ConstructFails \/ Construct

SpecContainers == InitContainers /\ [][NextContainers]_vars

\* the arguments of the call are integers in the range of their field
InRange(call) ==
    IF call.class = "TimeSignature"
    THEN call.numerator >= 1 /\ call.denominator >= 1 /\ call.time >= 0
    ELSE IF call.class = "KeySignature"
    THEN /\ call.key_number.type = "int"
         /\ call.key_number.value \in 0 .. 23
         /\ call.time >= 0
    ELSE call.tempo >= 0 /\ call.time >= 0

\* C22: a constructor call with a field out of range raises and makes no
\* object; a call with integers in range returns the object with the
\* fields as they were given.
C22_EagerValidation ==
    pc # "call" =>
        IF InRange(arg)
        THEN /\ pc = "constructed"
             /\ Len(loaded) = 1
             /\ loaded[1].time = arg.time
             /\ arg.class = "TimeSignature" =>
                    /\ loaded[1].numerator = arg.numerator
                    /\ loaded[1].denominator = arg.denominator
             /\ arg.class = "KeySignature" =>
                    loaded[1].key_number = arg.key_number.value
             /\ arg.class = "TempoChange" => loaded[1].tempo = arg.tempo
        ELSE /\ pc \in {"ValueError", "TypeError"}
             /\ loaded = <<>>

\* KeySignature(24, 0) refused
C22_Witness ==
    /\ pc = "ValueError"
    /\ arg.class = "KeySignature"
    /\ arg.key_number = PyInt(24)
    /\ arg.time = 0

(***************************************************************************)
(* The loader on type 1 files of two tracks that hold meta events and      *)
(* notes on either track.                                                  *)
(***************************************************************************)
MetaMaxEvents == 3

MetaEvents ==
    {KeySignatureMsg("C", d) : d \in Deltas}
    \cup {SetTempoMsg(500000, d) : d \in Deltas}
    \cup {TimeSignatureMsg(TimeSignature(3, 4, d)) : d \in Deltas}
    \cup {NoteOnMsg(0, 60, 80, d) : d \in Deltas}
    \cup {NoteOffMsg(0, 60, 0, d) : d \in Deltas}

InitMeta ==
    /\ pc = "file"
    /\ \E s0 \in SeqsUpTo(MetaEvents, MetaMaxEvents) :
         \E s1 \in SeqsUpTo(MetaEvents, MetaMaxEvents - Len(s0)) :
            /\ tracks = <<RawTrack(s0), RawTrack(s1)>>
            /\ before = <<RawTrack(s0), RawTrack(s1)>>
    /\ arg = [type |-> 1, resolution |-> <<>>]
    /\ all_events = <<>>
    /\ idx = 0
    /\ current_instrument = InitialResolver.current_instrument
    /\ last_note_on = InitialResolver.last_note_on
    /\ instrument_map = InitialResolver.instrument_map
    /\ track_name_map = <<>>
    /\ instruments = <<>>
    /\ resolution = 0
    /\ key_signatures = <<>>
    /\ time_signatures = <<>>
    /\ tempo_changes = <<>>
    /\ warnings = {}
    /\ loaded = <<>>
    /\ piano_roll = <<>>

SpecMeta == InitMeta /\ [][NextIngest]_vars

\* the file as the tracks of absolute ticks
FileTrack(i) == ToAbsolute(before)[i]

\* the ticks of the events of this type on track 0, in track order
RECURSIVE TicksIn(_, _)
TicksIn(track, type) ==
    IF track = <<>> THEN <<>>
    ELSE (IF Head(track).type = type THEN <<Head(track).time>> ELSE <<>>)
         \o TicksIn(Tail(track), type)

TicksOfList(list) == [k \in DOMAIN list |-> list[k].time]

NonDecreasing(ticks) ==
    \A k \in 1 .. Len(ticks) - 1 : ticks[k] <= ticks[k + 1]

IsNoteEvent(event) == event.type \in {"note_on", "note_off"}

IsMetaEvent(event) ==
    event.type \in {"set_tempo", "key_signature", "time_signature"}

\* the file has one of the conditions that only warrant a warning: a note
\* event on track 0, a meta event on track 1, a note_off without an open
\* note, or a note_off at the tick of its note_on
HasAdvisory ==
    \/ \E k \in DOMAIN before[1] : IsNoteEvent(before[1][k])
    \/ \E k \in DOMAIN before[2] : IsMetaEvent(before[2][k])
    \/ \E i \in DOMAIN before : \E k \in DOMAIN before[i] :
          /\ FileTrack(i)[k].type = "note_off"
          /\ \/ \A j \in 1 .. k - 1 : FileTrack(i)[j].type # "note_on"
             \/ \E j \in 1 .. k - 1 :
                   /\ FileTrack(i)[j].type = "note_on"
                   /\ FileTrack(i)[j].time = FileTrack(i)[k].time

\* C21: a file that passes the checks of type, track count and largest
\* tick and has notes on track 0, meta events on another track, a spurious
\* note_off or a zero-duration note is loaded to a document; no error is
\* raised.
C21_AdvisoriesNeverAbort ==
    (pc # "file" /\ HasAdvisory) =>
        /\ pc = "document"
        /\ resolution = TicksPerBeat

\* the same for the files without a key signature on track 0
AdvisoriesWithoutKeySignature ==
    (/\ pc # "file"
     /\ HasAdvisory
     /\ \A k \in DOMAIN before[1] : before[1][k].type # "key_signature")
        => pc = "document"

\* C26: the three meta lists of the loaded document are the tempo, key
\* signature and time signature events of track 0, in track order, each at
\* its absolute tick, so the ticks of a list never decrease; the events of
\* another track are in no list.
C26_MetaListsFromTrack0 ==
    pc # "file" =>
        /\ pc = "document"
        /\ TicksOfList(key_signatures) = TicksIn(FileTrack(1), "key_signature")
        /\ TicksOfList(time_signatures) = TicksIn(FileTrack(1), "time_signature")
        /\ TicksOfList(tempo_changes) = TicksIn(FileTrack(1), "set_tempo")
        /\ NonDecreasing(TicksOfList(key_signatures))
        /\ NonDecreasing(TicksOfList(time_signatures))
        /\ NonDecreasing(TicksOfList(tempo_changes))

\* the same for the files without a key signature on track 0
MetaListsWithoutKeySignature ==
    (pc # "file" /\ \A k \in DOMAIN before[1] : before[1][k].type # "key_signature")
        => C26_MetaListsFromTrack0

(***************************************************************************)
(* The loader of section one again: the merged sequence, the registers     *)
(* and the notes of the instrument table.                                  *)
(***************************************************************************)
\* the positions <<track, k>> of the events the resolver reads
Sources ==
    {p \in UNION {{<<i, k>> : k \in DOMAIN tracks[i]} : i \in DOMAIN tracks} :
        tracks[p[1]][p[2]].type \in {"program_change", "note_on", "note_off"}}

SourceEvent(p) == tracks[p[1]][p[2]]

\* p is read before q: earlier tick, then lower track, then earlier in
\* the track
ReadBefore(p, q) ==
    \/ SourceEvent(p).time < SourceEvent(q).time
    \/ /\ SourceEvent(p).time = SourceEvent(q).time
       /\ \/ p[1] < q[1]
          \/ p[1] = q[1] /\ p[2] < q[2]

Rank(p) == 1 + Cardinality({q \in Sources : ReadBefore(q, p)})

\* C24: the merged sequence holds the program_change, note_on and note_off
\* events of all tracks, each once, ordered by absolute tick, then by
\* track index, then by position in the track; the resolver reads it from
\* the front.
C24_MergedInTickOrder ==
    pc \in {"resolve", "done"} =>
        /\ Len(all_events) = Cardinality(Sources)
        /\ \A p \in Sources :
              all_events[Rank(p)] = <<p[1] - 1, SourceEvent(p)>>
        /\ \A i \in 1 .. Len(all_events) - 1 :
              \/ EventAt(i).time < EventAt(i + 1).time
              \/ /\ EventAt(i).time = EventAt(i + 1).time
                 /\ TrackAt(i) <= TrackAt(i + 1)
        /\ idx \in 1 .. Len(all_events) + 1

\* two events of a tick from tracks 1 and 2, then a later event of track 1
C24_Witness ==
    /\ pc = "done"
    /\ Len(all_events) = 3
    /\ TrackAt(1) = 1 /\ TrackAt(2) = 2 /\ TrackAt(3) = 1
    /\ EventAt(1).time = EventAt(2).time
    /\ EventAt(2).time < EventAt(3).time

\* C25: a program_change sets the slot of its channel in the register and
\* leaves the other slots, the open-note table and the instrument table
\* alone; no other event changes the register; the program a note_on
\* records is that of the last program_change of its channel read before
\* it, from any track, and 0 without one.
C25_RegisterPerChannel ==
    [][(pc = "resolve" /\ idx <= Len(all_events)) =>
          LET event == EventAt(idx)
          IN  /\ event.type = "program_change" =>
                    /\ current_instrument' =
                           [current_instrument EXCEPT
                               ![event.channel] = event.program]
                    /\ last_note_on' = last_note_on
                    /\ instrument_map' = instrument_map
              /\ event.type # "program_change" =>
                    current_instrument' = current_instrument
              /\ IsNoteOn(event) =>
                    /\ KeyAt(idx) \in DOMAIN last_note_on'
                    /\ last_note_on'[KeyAt(idx)].prog =
                           ProgramBefore(idx, event.channel)
              /\ \A ch \in AllChannels :
                    current_instrument'[ch] = ProgramBefore(idx + 1, ch)]_vars

\* a note_on of track 1 recorded with the program that a program_change
\* of track 2 set
C25_Witness ==
    /\ pc = "resolve"
    /\ \E key \in DOMAIN last_note_on :
          /\ key[1] = 1
          /\ last_note_on[key].prog = 40
    /\ \A i \in Processed :
          EventAt(i).type = "program_change" => TrackAt(i) = 2

\* C27: normalization gives event k of a track the sum of the delta times
\* of the events 1 .. k of that track and changes nothing else, so the
\* ticks never decrease along a track and no track depends on another.
C27_AbsoluteTicksPerTrack ==
    [][pc = "read" =>
          /\ pc' = "normalized"
          /\ DOMAIN tracks' = DOMAIN tracks
          /\ \A i \in DOMAIN tracks :
                /\ DOMAIN tracks'[i] = DOMAIN tracks[i]
                /\ \A k \in DOMAIN tracks[i] :
                      /\ tracks'[i][k] =
                             [tracks[i][k] EXCEPT !.time = TickAt(tracks[i], k)]
                      /\ k > 1 => tracks'[i][k - 1].time <= tracks'[i][k].time]_vars

\* track 1 has reached tick 2 and track 2 starts over below it
C27_Witness ==
    /\ pc = "normalized"
    /\ Len(tracks[2]) = 3
    /\ tracks[2][2].time = 2
    /\ Len(tracks[3]) = 2
    /\ tracks[3][1].time = 1

\* C28: every Instrument of the instrument table owns at least one Note.
C28_InstrumentsOwnNotes ==
    pc \in {"resolve", "done"} =>
        \A m \in DOMAIN instrument_map : instrument_map[m].ins.notes # <<>>

RECURSIVE TotalNotes(_)
TotalNotes(imap) ==
    IF imap = <<>> THEN 0
    ELSE Len(Head(imap).ins.notes) + TotalNotes(Tail(imap))

IsPrefix(s, t) == Len(s) <= Len(t) /\ \A k \in DOMAIN s : s[k] = t[k]

\* C29: every Note of the instrument table has 0 <= start < end, and an
\* event read by the resolver adds at most one Note to the whole table
\* and removes none: a Note is appended to one Instrument and stays there.
C29_NotesWellFormed ==
    [][pc = "resolve" =>
          /\ \A m \in DOMAIN instrument_map' :
                \A q \in DOMAIN instrument_map'[m].ins.notes :
                    LET n == instrument_map'[m].ins.notes[q]
                    IN  0 <= n.start /\ n.start < n.end
          /\ TotalNotes(instrument_map') - TotalNotes(instrument_map) \in {0, 1}
          /\ \A m \in DOMAIN instrument_map :
                /\ m \in DOMAIN instrument_map'
                /\ instrument_map'[m].key = instrument_map[m].key
                /\ IsPrefix(instrument_map[m].ins.notes,
                            instrument_map'[m].ins.notes)]_vars

\* three events, the first two at one tick, and a Note from tick 0 to 1
C29_Witness ==
    /\ pc = "done"
    /\ Len(all_events) = 3
    /\ EventAt(1).time = EventAt(2).time
    /\ \E m \in DOMAIN instrument_map :
          \E q \in DOMAIN instrument_map[m].ins.notes :
              /\ instrument_map[m].ins.notes[q].start = 0
              /\ instrument_map[m].ins.notes[q].end = 1

====
